---- MODULE Spec2Model ----
(***************************************************************************)
(* State-machine model of abipy/abio/inputs.py: AbinitInput (one dataset   *)
(* of ABINIT variables bound to a crystalline structure) and MultiDataset  *)
(* (a list of AbinitInput objects with attribute broadcasting).            *)
(*                                                                         *)
(* Objects live in a heap indexed by object identity, so that deepcopy,    *)
(* aliasing and in-place mutation are distinguishable.  Object 1 is the    *)
(* receiver the caller holds.  Every action models one whole call and      *)
(* records its arguments and outcome in ret.                               *)
(***************************************************************************)
EXTENDS Integers, Sequences, FiniteSets, TLC

VARIABLES heap, outs, multi, ret

vars == <<heap, outs, multi, ret>>

---------------------------------------------------------------------------
(* Bounds of the exploration.                                              *)

\* longest list argument (set_vars pairs, remove_vars keys, seed variables)
MaxLen == 2

\* largest num of linspace, and largest distance of stop from start in arange
MaxNum == 3

\* largest number of datasets of a MultiDataset
MaxDatasets == 3

---------------------------------------------------------------------------
(* Values.  Numbers are exact rationals num/den in lowest terms, so that   *)
(* the samples of numpy.linspace are represented exactly.                  *)

RECURSIVE Gcd(_, _)
Gcd(a, b) == IF b = 0 THEN a ELSE Gcd(b, a % b)

Abs(x) == IF x < 0 THEN -x ELSE x

Rat(n, d) == LET g == Gcd(Abs(n), Abs(d)) IN [num |-> n \div g, den |-> d \div g]

Num(n) == [num |-> n, den |-> 1]

\* a character of a string, as produced by iterating over a str
Chr(c) == [chr |-> c]

Values == {Num(1), Num(2)}

---------------------------------------------------------------------------
(* The vocabulary.                                                         *)

\* the names the documentation reserves for the structure
GeometryNames == {"acell", "rprim", "xred", "xcart", "xangst", "znucl", "typat", "ntypat", "natom", "angdeg"}

\* names of the ABINIT database that are not structure variables
PlainNames == {"ecut", "ixc", "ngkpt", "kptopt", "nshiftk", "shiftk", "kptbounds", "ndivsm", "iscf", "rprimd"}

\* abipy.abio.abivars.is_abivar: membership in the ABINIT variable database
is_abivar(key) == key \in PlainNames \cup GeometryNames

\* the module-level set literal; adjacent string literals without a comma
\* are concatenated by the Python parser
GEOVARS == {"acell", "rprim", "rprimdangdeg", "xredxcartxangst", "znucl", "typat", "ntypat", "natom"}

\* AbinitInput._check_varname without the database lookup
check_varname_nodb(key) == IF key \in GEOVARS THEN "AbinitInputError" ELSE "ok"

\* AbinitInput._check_varname: "ok" or the exception it raises
check_varname(key) == IF ~is_abivar(key) THEN "AbinitInputError" ELSE IF key \in GEOVARS THEN "AbinitInputError" ELSE "ok"

---------------------------------------------------------------------------
(* OrderedDict: a sequence of [k, v] entries with pairwise distinct keys,  *)
(* in insertion order.                                                     *)

Keys(d) == {d[i].k : i \in DOMAIN d}

Has(d, key) == key \in Keys(d)

\* the keys of an OrderedDict, in its order
KeyList(d) == [j \in DOMAIN d |-> d[j].k]

Get(d, key) == d[CHOOSE i \in DOMAIN d : d[i].k = key].v

\* OrderedDict.__setitem__: overwrite in place, or append a new entry
DictSet(d, key, value) == IF Has(d, key) THEN [i \in DOMAIN d |-> IF d[i].k = key THEN [k |-> key, v |-> value] ELSE d[i]] ELSE Append(d, [k |-> key, v |-> value])

\* OrderedDict.__delitem__ / pop of a present key
DictDel(d, key) == SelectSeq(d, LAMBDA e : e.k # key)

IsDict(d) == \A i, j \in DOMAIN d : d[i].k = d[j].k => i = j

RECURSIVE SeqsUpTo(_, _)
SeqsUpTo(S, n) == IF n = 0 THEN {<<>>} ELSE LET shorter == SeqsUpTo(S, n - 1) IN shorter \cup {Append(s, x) : s \in {t \in shorter : Len(t) = n - 1}, x \in S}

\* the dictionaries with at most n entries over keys K and values V
DictsUpTo(K, V, n) == {d \in SeqsUpTo([k : K, v : V], n) : IsDict(d)}

---------------------------------------------------------------------------
(* Structures: the lattice matrix, one row per lattice vector, and the     *)
(* chemical symbols of the species, in the order of the atomic number.     *)

Cubic == [lattice |-> <<<<1, 0, 0>>, <<0, 1, 0>>, <<0, 0, 1>>>>, symbols |-> <<"Si">>]
Tetragonal == [lattice |-> <<<<1, 0, 0>>, <<0, 1, 0>>, <<0, 0, 2>>>>, symbols |-> <<"Si">>]
LeftHanded == [lattice |-> <<<<0, 1, 0>>, <<1, 0, 0>>, <<0, 0, 1>>>>, symbols |-> <<"Si">>]
Coplanar == [lattice |-> <<<<1, 0, 0>>, <<0, 1, 0>>, <<1, 1, 0>>>>, symbols |-> <<"Si">>]

\* a crystal with two species
SiGe == [lattice |-> <<<<1, 0, 0>>, <<0, 1, 0>>, <<0, 0, 1>>>>, symbols |-> <<"Si", "Ge">>]

Structures == {Cubic, Tetragonal, LeftHanded, Coplanar}

Cross(a, b) == <<a[2] * b[3] - a[3] * b[2], a[3] * b[1] - a[1] * b[3], a[1] * b[2] - a[2] * b[1]>>

Dot(a, b) == a[1] * b[1] + a[2] * b[2] + a[3] * b[3]

\* np.dot(np.cross(m[0], m[1]), m[2])
TripleProduct(m) == Dot(Cross(m[1], m[2]), m[3])

\* the pseudos argument: a list of file names
Pseudos == {<<"Si.pspnc">>}

\* Pseudo.symbol: the chemical symbol of the element a pseudopotential file describes
symbol(p) == CASE p \in {"Si.pspnc", "Si.paw"} -> "Si" [] p = "Ge.pspnc" -> "Ge" [] OTHER -> "X"

\* PseudoTable.as_table(pseudos).get_pseudos_for_structure(structure): the
\* pseudos of the table whose symbol occurs in the structure, in the order
\* of the table; ValueError when a symbol of the structure has no pseudo or
\* more than one
get_pseudos_for_structure(pseudos, structure) == IF \E i \in DOMAIN structure.symbols : Cardinality({j \in DOMAIN pseudos : symbol(pseudos[j]) = structure.symbols[i]}) # 1 THEN [err |-> "ValueError"] ELSE [err |-> "ok", pseudos |-> SelectSeq(pseudos, LAMBDA p : \E i \in DOMAIN structure.symbols : symbol(p) = structure.symbols[i])]

\* the value of an argument or attribute that is not set
None == [none |-> TRUE]

\* a comment string
Comment(text) == [text |-> text]

\* a list passed where None is also accepted
List(list) == [list |-> list]

---------------------------------------------------------------------------
(* AbinitInput methods as functions of the object's fields.                *)

\* Structure.as_dict(): the serialized form of a structure
structure_as_dict(s) == [class |-> "Structure", lattice |-> s.lattice, symbols |-> s.symbols]

\* Structure.as_structure(obj): a Structure is returned as it is, a dict is
\* converted
as_structure(obj) == IF "class" \in DOMAIN obj THEN [lattice |-> obj.lattice, symbols |-> obj.symbols] ELSE obj

\* the exception of the volume check, or "ok"
check_volume(s) == IF TripleProduct(s.lattice) <= 0 THEN "AbinitInputError" ELSE "ok"

\* AbinitInput.set_structure: the attribute is assigned, then checked
set_structure(obj, s) == [obj |-> [obj EXCEPT !.structure = as_structure(s)], err |-> check_volume(as_structure(s))]

\* AbinitInput.__setitem__
setitem(obj, key, value) == IF check_varname(key) # "ok" THEN [obj |-> obj, err |-> check_varname(key)] ELSE [obj |-> [obj EXCEPT !.vars = DictSet(@, key, value)], err |-> "ok"]

\* AbinitInput.__delitem__
delitem(obj, key) == IF Has(obj.vars, key) THEN [obj |-> [obj EXCEPT !.vars = DictDel(@, key)], err |-> "ok"] ELSE [obj |-> obj, err |-> "KeyError"]

\* the first failing key of the constructor's loop over the seed variables
RECURSIVE check_seed(_)
check_seed(seed) == IF seed = <<>> THEN "ok" ELSE IF check_varname(Head(seed).k) # "ok" THEN check_varname(Head(seed).k) ELSE check_seed(Tail(seed))

\* AbinitInput.__init__: the new object, or the exception that aborts it;
\* seed lists vars in the iteration order of OrderedDict(**vars), and a
\* ValueError of the pseudopotential table is raised again as self.Error
init(structure, pseudos, comment, decorators, seed) == IF check_seed(seed) # "ok" THEN [err |-> check_seed(seed)] ELSE IF check_volume(structure) # "ok" THEN [err |-> check_volume(structure)] ELSE IF get_pseudos_for_structure(pseudos, structure).err # "ok" THEN [err |-> "AbinitInputError"] ELSE [err |-> "ok", obj |-> [vars |-> seed, structure |-> as_structure(structure), pseudos |-> get_pseudos_for_structure(pseudos, structure).pseudos, comment |-> comment, decorators |-> IF decorators = None THEN <<>> ELSE decorators.list]]

\* the property AbinitInput.comment: None when no comment was set
comment(obj) == obj.comment

\* AbinitInput.set_comment
set_comment(obj, c) == [obj EXCEPT !.comment = c]

\* AbinitInput.set_vars: items are the pairs in the iteration order of kwargs
RECURSIVE set_vars(_, _, _)
set_vars(obj, items, n) == IF items = <<>> THEN [obj |-> obj, err |-> "ok", n |-> n] ELSE LET r == setitem(obj, Head(items).k, Head(items).v) IN IF r.err # "ok" THEN [obj |-> obj, err |-> r.err, n |-> n] ELSE set_vars(r.obj, Tail(items), n + 1)

\* remove_vars that ignores a missing key
RECURSIVE remove_vars_lenient(_, _, _)
remove_vars_lenient(obj, keys, values) == IF keys = <<>> THEN [obj |-> obj, err |-> "ok", values |-> values] ELSE IF ~Has(obj.vars, Head(keys)) THEN remove_vars_lenient(obj, Tail(keys), values) ELSE remove_vars_lenient([obj EXCEPT !.vars = DictDel(@, Head(keys))], Tail(keys), Append(values, Get(obj.vars, Head(keys))))

\* AbinitInput.remove_vars: values holds what the loop has popped so far
RECURSIVE remove_vars(_, _, _)
remove_vars(obj, keys, values) == IF keys = <<>> THEN [obj |-> obj, err |-> "ok", values |-> values] ELSE IF ~Has(obj.vars, Head(keys)) THEN [obj |-> obj, err |-> "KeyError", values |-> values] ELSE remove_vars([obj EXCEPT !.vars = DictDel(@, Head(keys))], Tail(keys), Append(values, Get(obj.vars, Head(keys))))

---------------------------------------------------------------------------
(* The receiver and the calls made on it.                                  *)

Live == DOMAIN heap

\* names a caller passes: a plain one, structure names, an unknown one
AllNames == GeometryNames \cup {"ecut", "foo"}
FewNames == {"ecut", "xred", "acell", "foo"}

Init ==
    /\ heap = [o \in {1} |-> init(Cubic, <<"Si.pspnc">>, None, None, <<>>).obj]
    /\ outs = <<>>
    /\ multi = <<>>
    /\ ret = [op |-> "new", err |-> "ok"]

\* inp = AbinitInput(structure, pseudos, vars=seed)
Construct(N) ==
    \E s \in Structures, p \in Pseudos, seed \in DictsUpTo(N, {Num(1)}, MaxLen) :
        LET r == init(s, p, None, None, seed) IN
        /\ heap' = IF r.err = "ok" THEN [heap EXCEPT ![1] = r.obj] ELSE heap
        /\ ret' = [op |-> "init", structure |-> s, nseed |-> Len(seed), err |-> r.err]
        /\ UNCHANGED <<outs, multi>>

\* obj[key] = value
SetItem(O, N, V) ==
    \E o \in O, key \in N, value \in V :
        LET r == setitem(heap[o], key, value) IN
        /\ heap' = [heap EXCEPT ![o] = r.obj]
        /\ ret' = [op |-> "setitem", self |-> o, key |-> key, value |-> value, err |-> r.err]
        /\ UNCHANGED <<outs, multi>>

\* del obj[key]
DelItem(O, N) ==
    \E o \in O, key \in N :
        LET r == delitem(heap[o], key) IN
        /\ heap' = [heap EXCEPT ![o] = r.obj]
        /\ ret' = [op |-> "delitem", self |-> o, key |-> key, err |-> r.err]
        /\ UNCHANGED <<outs, multi>>

\* obj.set_vars(**kwargs)
SetVars(N) ==
    \E o \in Live, items \in DictsUpTo(N, Values, MaxLen) :
        LET r == set_vars(heap[o], items, 0) IN
        /\ heap' = [heap EXCEPT ![o] = r.obj]
        /\ ret' = [op |-> "set_vars", self |-> o, nitems |-> Len(items), err |-> r.err, n |-> r.n]
        /\ UNCHANGED <<outs, multi>>

\* obj.remove_vars(keys)
RemoveVars(N) ==
    \E o \in Live, keys \in SeqsUpTo(N, MaxLen) :
        LET r == remove_vars(heap[o], keys, <<>>) IN
        /\ heap' = [heap EXCEPT ![o] = r.obj]
        /\ ret' = [op |-> "remove_vars", self |-> o, keys |-> keys, err |-> r.err, values |-> r.values]
        /\ UNCHANGED <<outs, multi>>

\* obj.set_structure(structure)
SetStructure ==
    \E o \in Live, s \in Structures :
        LET r == set_structure(heap[o], s) IN
        /\ heap' = [heap EXCEPT ![o] = r.obj]
        /\ ret' = [op |-> "set_structure", self |-> o, structure |-> s, err |-> r.err]
        /\ UNCHANGED <<outs, multi>>

\* obj.set_comment(comment)
SetComment(O) ==
    \E o \in O, c \in {Comment("a"), Comment("b")} :
        /\ heap' = [heap EXCEPT ![o] = set_comment(heap[o], c)]
        /\ ret' = [op |-> "set_comment", self |-> o, err |-> "ok"]
        /\ UNCHANGED <<outs, multi>>

Next ==
    \/ Construct(FewNames)
    \/ SetItem(Live, FewNames, Values)
    \/ DelItem(Live, FewNames)
    \/ SetVars(FewNames)
    \/ RemoveVars(FewNames)
    \/ SetStructure

Spec == Init /\ [][Next]_vars

\* item assignment and deletion with every reserved name
NextGeo ==
    \/ SetItem(Live, AllNames, Values)
    \/ DelItem(Live, AllNames)

SpecGeo == Init /\ [][NextGeo]_vars

---------------------------------------------------------------------------
(* Sweeps: linspace, arange and product return deep copies of the receiver *)
(* with the swept variables set.                                           *)

Range(f) == {f[i] : i \in DOMAIN f}

\* identity of the next object the interpreter allocates
Fresh(h) == CHOOSE id \in 1..(Cardinality(DOMAIN h) + 1) : id \notin DOMAIN h

\* a copy routine that hands back the object itself
deepcopy_alias(h, o) == [id |-> o, heap |-> h]

\* AbinitInput.deepcopy: a new object with equal fields
deepcopy(h, o) == [id |-> Fresh(h), heap |-> [id \in DOMAIN h \cup {Fresh(h)} |-> IF id \in DOMAIN h THEN h[id] ELSE h[o]]]

\* the objects of h that are still referenced
Retain(h, ids) == [id \in ids \cap DOMAIN h |-> h[id]]

\* the heap after the new objects objs are created, and their identities
RECURSIVE allocate(_, _, _)
allocate(h, objs, ids) == IF objs = <<>> THEN [heap |-> h, ids |-> ids] ELSE allocate([id \in DOMAIN h \cup {Fresh(h)} |-> IF id \in DOMAIN h THEN h[id] ELSE Head(objs)], Tail(objs), Append(ids, Fresh(h)))

\* np.linspace(start, stop, num, endpoint): num samples, a step of
\* (stop - start) / div with div = num - 1 or num
linspace_values(start, stop, num, endpoint) == LET div == IF endpoint THEN num - 1 ELSE num IN [i \in 1..num |-> IF div = 0 THEN Num(start) ELSE Rat(start * div + (i - 1) * (stop - start), div)]

\* np.arange(start, stop, step) for integers: ceil((stop - start) / step) values
arange_length(start, stop, step) == IF (stop - start) * step <= 0 THEN 0 ELSE ((Abs(stop - start) + Abs(step) - 1) \div Abs(step))

arange_values(start, stop, step) == [i \in 1..arange_length(start, stop, step) |-> Num(start + (i - 1) * step)]

\* the loop of linspace and arange: copy, assign, collect
RECURSIVE sweep(_, _, _, _, _)
sweep(h, o, varname, values, inps) == IF values = <<>> THEN [heap |-> h, inps |-> inps, err |-> "ok"] ELSE LET c == deepcopy(h, o) r == setitem(c.heap[c.id], varname, Head(values)) IN IF r.err # "ok" THEN [heap |-> c.heap, inps |-> inps, err |-> r.err] ELSE sweep([c.heap EXCEPT ![c.id] = r.obj], o, varname, Tail(values), Append(inps, c.id))

\* arguments of product: a str or a list of values
Str(name) == [s |-> name]
Lst(values) == [l |-> values]

\* monty.string.is_string
is_string(item) == "s" \in DOMAIN item

\* iterating over a str yields its characters
Chars(name) == CASE name = "ecut" -> <<"e", "c", "u", "t">> [] name = "ixc" -> <<"i", "x", "c">> [] OTHER -> <<>>

\* the elements an argument yields when it is iterated
Elems(item) == IF is_string(item) THEN [j \in DOMAIN Chars(item.s) |-> Chr(Chars(item.s)[j])] ELSE item.l

\* the value of i after "for i, item in enumerate(items): if not is_string(item): break"
\* for a non-empty items (0-based)
loop_index(items) == IF \E j \in DOMAIN items : ~is_string(items[j]) THEN (CHOOSE j \in DOMAIN items : ~is_string(items[j]) /\ \A j2 \in 1..(j - 1) : is_string(items[j2])) - 1 ELSE Len(items) - 1

\* a cartesian product whose first list varies fastest
RECURSIVE cartesian_first_fastest(_)
cartesian_first_fastest(lists) == IF lists = <<>> THEN <<<<>>>> ELSE LET rest == cartesian_first_fastest(Tail(lists)) first == Head(lists) IN [t \in 1..(Len(first) * Len(rest)) |-> <<first[((t - 1) % Len(first)) + 1]>> \o rest[((t - 1) \div Len(first)) + 1]]

\* itertools.product(*lists): tuples in lexicographic order
RECURSIVE cartesian(_)
cartesian(lists) == IF lists = <<>> THEN <<<<>>>> ELSE LET rest == cartesian(Tail(lists)) first == Head(lists) IN [t \in 1..(Len(first) * Len(rest)) |-> <<first[((t - 1) \div Len(rest)) + 1]>> \o rest[((t - 1) % Len(rest)) + 1]]

\* {k: v for k, v in zip(names, values)} listed in the iteration order of the
\* dict: a repeated name keeps its last value
kwargs_items(names, values, order) == [j \in DOMAIN order |-> [k |-> order[j], v |-> values[CHOOSE i \in DOMAIN names : names[i] = order[j] /\ \A i2 \in DOMAIN names : names[i2] = order[j] => i2 <= i]]]

\* the loop of product over the zipped tuples
RECURSIVE product_loop(_, _, _, _, _, _)
product_loop(h, o, names, tuples, order, inps) == IF tuples = <<>> THEN [heap |-> h, inps |-> inps, err |-> "ok"] ELSE LET c == deepcopy(h, o) r == set_vars(c.heap[c.id], kwargs_items(names, Head(tuples), order), 0) IN IF r.err # "ok" THEN [heap |-> c.heap, inps |-> inps, err |-> r.err] ELSE product_loop([c.heap EXCEPT ![c.id] = r.obj], o, names, Tail(tuples), order, Append(inps, c.id))

\* AbinitInput.product; order is the iteration order of the keyword dict
product(h, o, items, order) == IF items = <<>> THEN [heap |-> h, inps |-> <<>>, err |-> "UnboundLocalError"] ELSE LET i == loop_index(items) varnames == SubSeq(items, 1, i) values == SubSeq(items, i + 1, Len(items)) IN IF Len(varnames) # Len(values) THEN [heap |-> h, inps |-> <<>>, err |-> "AbinitInputError"] ELSE product_loop(h, o, [j \in DOMAIN varnames |-> varnames[j].s], cartesian([j \in DOMAIN values |-> Elems(values[j])]), order, <<>>)

\* the orders in which a dict with the keys of names can be iterated
Orders(names) == {q \in SeqsUpTo(Range(names), Len(names)) : Range(q) = Range(names) /\ Len(q) = Cardinality(Range(names))}

\* the keyword names product passes to set_vars
product_names(items) == IF items = <<>> THEN <<>> ELSE [j \in 1..loop_index(items) |-> items[j].s]

SweepNames == {"ecut", "acell"}

ProductNames == {Str("ecut"), Str("ixc")}

\* the argument lists of product: short mixtures of names and a list, and
\* two names followed by two lists
ProductCalls == SeqsUpTo(ProductNames \cup {Lst(<<Num(1), Num(2)>>)}, Cardinality(ProductNames) + 1) \cup {<<n1, n2, Lst(<<Num(1), Num(2)>>), Lst(<<Num(10), Num(20)>>)>> : n1 \in ProductNames, n2 \in ProductNames}

SweepOps == {"linspace", "arange", "product"}

\* the caller keeps the receiver and the list the last sweep returned
Kept(h, inps) == [id \in {1} \cup Range(inps) |-> h[id]]

\* the objects a caller edits: the receiver, and an input of the list a
\* sweep has just returned
Editable == {1} \cup (IF ret.op \in SweepOps \cup {"new_with_decorators"} THEN Range(outs) ELSE {})

InitSweep ==
    /\ \E s \in {Cubic, Tetragonal} : heap = [o \in {1} |-> init(s, <<"Si.pspnc">>, None, None, <<>>).obj]
    /\ outs = <<>>
    /\ multi = <<>>
    /\ ret = [op |-> "new", err |-> "ok"]

\* outs = inp.linspace(varname, start, stop, num, endpoint)
Linspace ==
    \E varname \in SweepNames, start \in {0}, stop \in {1, 2}, num \in 0..MaxNum, endpoint \in BOOLEAN :
        LET r == sweep(Kept(heap, <<>>), 1, varname, linspace_values(start, stop, num, endpoint), <<>>) IN
        /\ outs' = IF r.err = "ok" THEN r.inps ELSE <<>>
        /\ heap' = Kept(r.heap, outs')
        /\ ret' = [op |-> "linspace", self |-> 1, varname |-> varname, start |-> start, stop |-> stop, num |-> num, endpoint |-> endpoint, err |-> r.err]
        /\ UNCHANGED multi

\* outs = inp.arange(varname, start, stop, step)
Arange ==
    \E varname \in SweepNames, start \in {0}, stop \in (-1)..MaxNum, step \in {-1, 1, 2} :
        LET r == sweep(Kept(heap, <<>>), 1, varname, arange_values(start, stop, step), <<>>) IN
        /\ outs' = IF r.err = "ok" THEN r.inps ELSE <<>>
        /\ heap' = Kept(r.heap, outs')
        /\ ret' = [op |-> "arange", self |-> 1, varname |-> varname, start |-> start, stop |-> stop, step |-> step, err |-> r.err]
        /\ UNCHANGED multi

\* outs = inp.product(*items)
Product ==
    \E items \in ProductCalls :
        \E order \in Orders(product_names(items)) :
            \E r \in {product(Kept(heap, <<>>), 1, items, order)} :
            /\ outs' = IF r.err = "ok" THEN r.inps ELSE <<>>
            /\ heap' = Kept(r.heap, outs')
            /\ ret' = [op |-> "product", self |-> 1, items |-> items, err |-> r.err]
            /\ UNCHANGED multi

\* linspace and arange, with edits of the receiver and of the returned inputs
NextSweep ==
    \/ Linspace
    \/ Arange
    \/ SetItem(Editable, {"ecut", "ixc"}, {Num(1)})
    \/ DelItem(Editable, {"ecut", "ixc"})

SpecSweep == InitSweep /\ [][NextSweep]_vars

\* product, with edits of the receiver and of the returned inputs
NextProduct ==
    \/ Product
    \/ SetItem(Editable, {"ecut", "ixc"}, {Num(1)})
    \/ DelItem(Editable, {"ecut", "ixc"})

SpecProduct == InitSweep /\ [][NextProduct]_vars

---------------------------------------------------------------------------
(* Decorators: callables dec(inp, deepcopy) that return an input with some *)
(* variables changed and that log themselves in the input they return.     *)

\* a decorator object that sets one variable
Decorator(key, value) == [object |-> "AbinitInputDecorator", key |-> key, value |-> value]

\* decorator.as_dict(): the record of the decorator's configuration
as_dict_of_decorator(dec) == [class |-> dec.object, key |-> dec.key, value |-> dec.value]

\* AbinitInput.register_decorator
register_decorator(obj, dec) == [obj EXCEPT !.decorators = Append(@, as_dict_of_decorator(dec))]

\* dec(inp, deepcopy=...): works on a copy when deepcopy is true, on inp
\* itself otherwise; sets its variable and registers itself
decorate(h, o, dec, copy_first) == LET c == IF copy_first THEN deepcopy(h, o) ELSE [id |-> o, heap |-> h] r == setitem(c.heap[c.id], dec.key, dec.value) IN [id |-> c.id, heap |-> [c.heap EXCEPT ![c.id] = register_decorator(r.obj, dec)], err |-> r.err]

\* the loop of new_with_decorators from index i (0-based) on; calls lists
\* the decorator, the argument, the deepcopy flag and the result of each call
RECURSIVE decorate_loop(_, _, _, _, _)
decorate_loop(h, inp, decorators, i, calls) == IF decorators = <<>> THEN [id |-> inp, heap |-> h, err |-> "ok", calls |-> calls] ELSE LET r == decorate(h, inp, Head(decorators), i = 0) IN IF r.err # "ok" THEN [id |-> inp, heap |-> r.heap, err |-> r.err, calls |-> calls] ELSE decorate_loop(r.heap, r.id, Tail(decorators), i + 1, Append(calls, [dec |-> Head(decorators), arg |-> inp, deepcopy |-> (i = 0), result |-> r.id]))

\* new_with_decorators that never asks for a copy
new_with_decorators_nocopy(h, o, decorators) == decorate_loop(h, o, IF "list" \in DOMAIN decorators THEN decorators.list ELSE <<decorators>>, 1, <<>>)

\* AbinitInput.new_with_decorators: decorators is a list or one decorator
new_with_decorators(h, o, decorators) == decorate_loop(h, o, IF "list" \in DOMAIN decorators THEN decorators.list ELSE <<decorators>>, 0, <<>>)

\* the decorators a caller passes
Decorators == {Decorator("ecut", Num(2)), Decorator("ecut", Num(3)), Decorator("ixc", Num(2))}

\* outs = [inp.new_with_decorators(decorators)]
NewWithDecorators ==
    \E decorators \in Decorators \cup {List(s) : s \in SeqsUpTo(Decorators, MaxLen)} :
        \E r \in {new_with_decorators(Kept(heap, <<>>), 1, decorators)} :
            /\ outs' = IF r.err = "ok" THEN <<r.id>> ELSE <<>>
            /\ heap' = Kept(r.heap, outs')
            /\ ret' = [op |-> "new_with_decorators", self |-> 1, decorators |-> decorators, err |-> r.err, calls |-> r.calls]
            /\ UNCHANGED multi

\* new_with_decorators, with edits of the receiver and of the returned input
NextDecorate ==
    \/ NewWithDecorators
    \/ SetItem(Editable, {"ecut", "ixc"}, {Num(1)})
    \/ DelItem(Editable, {"ecut", "ixc"})

SpecDecorate == InitSweep /\ [][NextDecorate]_vars

---------------------------------------------------------------------------
(* Serialization: as_dict and from_dict.                                   *)

\* Pseudo.as_dict() and Pseudo.from_file(p['filepath'])
pseudo_as_dict(p) == [filepath |-> p]
pseudo_from_file(filepath) == filepath

\* dec.as_dict() for an element of self.decorators: a dict has no as_dict
has_as_dict(dec) == "object" \in DOMAIN dec

\* AbinitInput.as_dict
as_dict(obj) == IF \E i \in DOMAIN obj.decorators : ~has_as_dict(obj.decorators[i]) THEN [err |-> "AttributeError"] ELSE [err |-> "ok", d |-> [structure |-> structure_as_dict(obj.structure), pseudos |-> [i \in DOMAIN obj.pseudos |-> pseudo_as_dict(obj.pseudos[i])], comment |-> comment(obj), decorators |-> [i \in DOMAIN obj.decorators |-> as_dict_of_decorator(obj.decorators[i])], vars |-> obj.vars]]

\* AbinitInput.from_dict; order is the iteration order of the keyword dict
\* of OrderedDict(**vars)
from_dict(d, order) == init(d.structure, [i \in DOMAIN d.pseudos |-> pseudo_from_file(d.pseudos[i].filepath)], d.comment, List(d.decorators), [j \in DOMAIN order |-> [k |-> order[j], v |-> Get(d.vars, order[j])]])

\* the decorators argument of the constructor
DecoratorArguments == {None, List(<<>>), List(<<Decorator("ecut", Num(2))>>)}

\* inp = AbinitInput(structure, pseudos, comment=comment, decorators=decorators, vars=seed)
ConstructWith ==
    \E c \in {None, Comment("a")}, decorators \in DecoratorArguments, seed \in DictsUpTo({"ecut", "ixc"}, {Num(1)}, MaxLen) :
        \E r \in {init(Tetragonal, <<"Si.pspnc">>, c, decorators, seed)} :
            /\ heap' = [o \in {1} |-> r.obj]
            /\ outs' = <<>>
            /\ ret' = [op |-> "init", err |-> r.err]
            /\ UNCHANGED multi

\* inp.register_decorator(decorator)
RegisterDecorator ==
    \E dec \in {Decorator("ixc", Num(2))} :
        /\ Len(heap[1].decorators) < MaxLen
        /\ heap' = [heap EXCEPT ![1] = register_decorator(heap[1], dec)]
        /\ ret' = [op |-> "register_decorator", err |-> "ok"]
        /\ UNCHANGED <<outs, multi>>

\* d = inp.as_dict()
AsDict ==
    \E r \in {as_dict(heap[1])} :
        /\ ret' = [op |-> "as_dict", err |-> r.err, d |-> IF r.err = "ok" THEN r.d ELSE None]
        /\ UNCHANGED <<heap, outs, multi>>

\* outs = [AbinitInput.from_dict(d)] for the d that as_dict has just returned
FromDict ==
    /\ ret.op = "as_dict"
    /\ ret.err = "ok"
    /\ \E order \in Orders(KeyList(ret.d.vars)) :
        \E r \in {from_dict(ret.d, order)} :
            \E a \in {IF r.err = "ok" THEN allocate(Kept(heap, <<>>), <<r.obj>>, <<>>) ELSE [heap |-> Kept(heap, <<>>), ids |-> <<>>]} :
                /\ heap' = a.heap
                /\ outs' = a.ids
                /\ ret' = [op |-> "from_dict", err |-> r.err]
    /\ UNCHANGED multi

\* an input that is built, edited and logged, then serialized and rebuilt
NextSerial ==
    \/ ConstructWith
    \/ SetItem({1}, {"ecut", "ixc"}, {Num(1)})
    \/ DelItem({1}, {"ecut", "ixc"})
    \/ RegisterDecorator
    \/ AsDict
    \/ FromDict

SpecSerial == Init /\ [][NextSerial]_vars

---------------------------------------------------------------------------
(* MultiDataset: the list _inputs of AbinitInput objects, and the calls    *)
(* that __getattr__ forwards to every element.                             *)

\* the structure argument of MultiDataset: one structure, or a list of them
One(s) == [one |-> s]
Many(list) == [many |-> list]

\* the structures the constructor builds its inputs from
dataset_structures(structure, ndtset) == IF "one" \in DOMAIN structure THEN [i \in 1..ndtset |-> structure.one] ELSE structure.many

\* a constructor without the check of the length of the structure list
multi_init_unchecked(structure, pseudos, ndtset) == IF ndtset <= 0 THEN [err |-> "ValueError"] ELSE LET ss == dataset_structures(structure, ndtset) IN IF \E i \in DOMAIN ss : init(ss[i], pseudos, None, None, <<>>).err # "ok" THEN [err |-> "AbinitInputError"] ELSE [err |-> "ok", inputs |-> [i \in DOMAIN ss |-> init(ss[i], pseudos, None, None, <<>>).obj]]

\* MultiDataset.__init__: the new inputs, or the exception that aborts it
multi_init(structure, pseudos, ndtset) == IF ndtset <= 0 THEN [err |-> "ValueError"] ELSE IF "many" \in DOMAIN structure /\ Len(structure.many) # ndtset THEN [err |-> "AssertionError"] ELSE LET ss == dataset_structures(structure, ndtset) IN IF \E i \in DOMAIN ss : init(ss[i], pseudos, None, None, <<>>).err # "ok" THEN [err |-> "AbinitInputError"] ELSE [err |-> "ok", inputs |-> [i \in DOMAIN ss |-> init(ss[i], pseudos, None, None, <<>>).obj]]

\* the bound method a forwarded name resolves to, applied to one input
call(obj, name, args) == IF name = "set_vars" THEN [obj |-> set_vars(obj, args, 0).obj, err |-> set_vars(obj, args, 0).err, val |-> args] ELSE [obj |-> remove_vars(obj, args, <<>>).obj, err |-> remove_vars(obj, args, <<>>).err, val |-> remove_vars(obj, args, <<>>).values]

\* a forwarding loop that stops after the first input
on_all_first(h, inputs, name, args, i, results) == LET r == call(h[inputs[1]], name, args) IN [heap |-> [h EXCEPT ![inputs[1]] = r.obj], results |-> IF r.err = "ok" THEN <<r.val>> ELSE <<>>, err |-> r.err, calls |-> <<1>>]

\* on_all of MultiDataset.__getattr__ for a callable member: the loop over
\* self._inputs from position i on; calls lists the positions invoked
RECURSIVE on_all(_, _, _, _, _, _)
on_all(h, inputs, name, args, i, results) == IF i > Len(inputs) THEN [heap |-> h, results |-> results, err |-> "ok", calls |-> [j \in 1..(i - 1) |-> j]] ELSE LET r == call(h[inputs[i]], name, args) IN IF r.err # "ok" THEN [heap |-> [h EXCEPT ![inputs[i]] = r.obj], results |-> results, err |-> r.err, calls |-> [j \in 1..i |-> j]] ELSE on_all([h EXCEPT ![inputs[i]] = r.obj], inputs, name, args, i + 1, Append(results, r.val))

InitMulti ==
    /\ heap = [o \in {1} |-> init(Cubic, <<"Si.pspnc">>, None, None, <<>>).obj]
    /\ outs = <<>>
    /\ multi = <<1>>
    /\ ret = [op |-> "new", err |-> "ok"]

\* multi = MultiDataset(structure, pseudos, ndtset=ndtset)
MultiConstruct ==
    \E structure \in {One(Cubic), One(LeftHanded), Many(<<Cubic, Tetragonal>>)}, ndtset \in 0..MaxDatasets :
        \E r \in {multi_init(structure, <<"Si.pspnc">>, ndtset)} :
            \E a \in {IF r.err = "ok" THEN allocate(Retain(heap, Range(outs)), r.inputs, <<>>) ELSE [heap |-> heap, ids |-> multi]} :
            /\ heap' = a.heap
            /\ multi' = a.ids
            /\ ret' = [op |-> "multi_init", structure |-> structure, ndtset |-> ndtset, err |-> r.err]
            /\ UNCHANGED outs

\* multi.addnew_from(dtindex)
AddnewFrom ==
    \E dtindex \in DOMAIN multi :
        /\ Len(multi) < MaxDatasets
        /\ \E c \in {deepcopy(heap, multi[dtindex])} :
            /\ heap' = c.heap
            /\ multi' = Append(multi, c.id)
            /\ ret' = [op |-> "addnew_from", dtindex |-> dtindex, err |-> "ok"]
        /\ UNCHANGED outs

\* multi.set_vars(**kwargs) and multi.remove_vars(keys) through __getattr__
Broadcast ==
    \E name \in {"set_vars", "remove_vars"} :
        \E args \in IF name = "set_vars" THEN DictsUpTo({"ecut", "ixc", "foo"}, {Num(10)}, MaxLen) ELSE {<<"ecut">>} :
            \E r \in {on_all(heap, multi, name, args, 1, <<>>)} :
                /\ heap' = r.heap
                /\ ret' = [op |-> "broadcast", name |-> name, args |-> args, err |-> r.err, calls |-> r.calls, results |-> r.results]
                /\ UNCHANGED <<outs, multi>>

NextMulti ==
    \/ MultiConstruct
    \/ AddnewFrom
    \/ Broadcast
    \/ SetItem(Range(multi), {"ecut"}, {Num(1)})
    \/ DelItem(Range(multi), {"ecut"})

SpecMulti == InitMulti /\ [][NextMulti]_vars

\* construction of a MultiDataset over an earlier one of any size
NextMultiInit ==
    \/ MultiConstruct
    \/ AddnewFrom
    \/ SetItem(Range(multi), {"ecut"}, {Num(1)})

SpecMultiInit == InitMulti /\ [][NextMultiInit]_vars

---------------------------------------------------------------------------
(* Rendering.  A text is the sequence of its lines; a line is a record     *)
(* with the parts the code concatenates.                                   *)

\* Structure.to_abivars(): the variables that describe the crystal
to_abivars(s) == <<[k |-> "ntypat", v |-> Num(Len(s.symbols))], [k |-> "acell", v |-> [vector |-> <<1, 1, 1>>]], [k |-> "rprim", v |-> [matrix |-> s.lattice]]>>

\* the names of the model in alphabetical order
Alphabet == <<"acell", "ecut", "iscf", "ixc", "ntypat", "rprim">>

\* position of a name in the alphabetical order
Rank(name) == CHOOSE i \in DOMAIN Alphabet : Alphabet[i] = name

\* sorted(keys)
RECURSIVE sorted(_)
sorted(keys) == IF keys = <<>> THEN <<>> ELSE LET least == CHOOSE i \in DOMAIN keys : \A j \in DOMAIN keys : Rank(keys[i]) <= Rank(keys[j]) IN <<keys[least]>> \o sorted([j \in 1..(Len(keys) - 1) |-> IF j < least THEN keys[j] ELSE keys[j + 1]])

\* app("# " + self.comment.replace(...)) when a comment is set
comment_lines(obj) == IF comment(obj) = None THEN <<>> ELSE <<[kind |-> "comment", text |-> comment(obj).text]>>

\* str(InputVariable(name + post, value)) for each item
variable_lines(items, post) == [j \in DOMAIN items |-> [kind |-> "variable", name |-> items[j].k, post |-> post, value |-> items[j].v]]

\* the section between #<JSON> and </JSON> with the pseudopotentials
ppinfo(obj) == <<[kind |-> "json", pseudos |-> obj.pseudos]>>

\* to_string that takes an unsupported sortmode for None
to_string_lenient(obj, sortmode, post, with_structure, with_pseudos) == LET items == obj.vars \o (IF with_structure THEN to_abivars(obj.structure) ELSE <<>>) s == comment_lines(obj) \o variable_lines(items, IF post = None THEN "" ELSE post.s) IN [err |-> "ok", text |-> IF with_pseudos THEN s \o ppinfo(obj) ELSE s]

\* AbinitInput.to_string; keys is computed from sortmode, and the loop runs
\* over items
to_string(obj, sortmode, post, with_structure, with_pseudos) == IF sortmode # None /\ sortmode # Str("a") THEN [err |-> "ValueError"] ELSE LET keys == IF sortmode = None THEN KeyList(obj.vars) ELSE sorted(KeyList(obj.vars)) items == obj.vars \o (IF with_structure THEN to_abivars(obj.structure) ELSE <<>>) s == comment_lines(obj) \o variable_lines(items, IF post = None THEN "" ELSE post.s) IN [err |-> "ok", text |-> IF with_pseudos THEN s \o ppinfo(obj) ELSE s]

\* str(n) of a small natural number
str(n) == CASE n = 0 -> "0" [] n = 1 -> "1" [] n = 2 -> "2" [] n = 3 -> "3" [] n = 4 -> "4" [] n = 5 -> "5" [] n = 6 -> "6" [] n = 7 -> "7" [] n = 8 -> "8" [] OTHER -> "9"

\* one pass of the loop of MultiDataset.__str__: the header frames the text
\* of the dataset when that text is not empty
dataset_block(obj, i, n, with_pseudos) == LET s == to_string(obj, None, Str(str(i)), TRUE, with_pseudos).text IN IF s # <<>> THEN [kind |-> "block", header |-> Str(str(i)), text |-> s] ELSE [kind |-> "block", header |-> None, text |-> s]

\* __str__ that adds the pseudopotential section to every dataset
multi_str_all_pseudos(h, inputs) == IF Len(inputs) > 1 THEN <<[kind |-> "ndtset", n |-> Len(inputs)]>> \o [i \in DOMAIN inputs |-> dataset_block(h[inputs[i]], i, Len(inputs), TRUE)] ELSE to_string(h[inputs[1]], None, None, TRUE, TRUE).text

\* MultiDataset.__str__
multi_str(h, inputs) == IF Len(inputs) > 1 THEN <<[kind |-> "ndtset", n |-> Len(inputs)]>> \o [i \in DOMAIN inputs |-> dataset_block(h[inputs[i]], i, Len(inputs), i = Len(inputs))] ELSE to_string(h[inputs[1]], None, None, TRUE, TRUE).text

\* the sortmode arguments: the default, "a", and one that is not supported
SortModes == {None, Str("a"), Str("d")}

\* text = inp.to_string(sortmode, post, with_structure, with_pseudos)
Stringify ==
    \E o \in Live, sortmode \in SortModes, post \in {None, Str("1")}, with_structure \in BOOLEAN, with_pseudos \in BOOLEAN :
        \E r \in {to_string(heap[o], sortmode, post, with_structure, with_pseudos)} :
            /\ ret' = [op |-> "to_string", self |-> o, sortmode |-> sortmode, post |-> post, with_structure |-> with_structure, with_pseudos |-> with_pseudos, err |-> r.err, text |-> IF r.err = "ok" THEN r.text ELSE <<>>]
            /\ UNCHANGED <<heap, outs, multi>>

\* text = str(multi)
MultiStr ==
    /\ ret' = [op |-> "str", err |-> "ok", text |-> multi_str(heap, multi)]
    /\ UNCHANGED <<heap, outs, multi>>

\* an input whose variables and comment are edited, and that is rendered
NextRender ==
    \/ SetItem(Live, {"ecut", "ixc", "iscf"}, {Num(1)})
    \/ DelItem(Live, {"ecut", "ixc", "iscf"})
    \/ SetComment(Live)
    \/ Stringify

SpecRender == Init /\ [][NextRender]_vars

\* an input that is rebuilt, whose structure is replaced and whose variables
\* are edited, and that is rendered
NextLive ==
    \/ Construct({"ecut", "xred"})
    \/ SetStructure
    \/ SetItem(Live, {"ecut", "xred"}, {Num(1)})
    \/ DelItem(Live, {"ecut", "xred"})
    \/ Stringify

SpecLive == Init /\ [][NextLive]_vars

---------------------------------------------------------------------------
(* The path in k-space of a band-structure calculation.  Coordinates are   *)
(* integers, in units of half a reciprocal lattice vector.                 *)

\* Structure.calc_kptbounds(): the default high-symmetry path of the crystal
calc_kptbounds(s) == IF s.lattice[3][3] = 1 THEN <<<<0, 0, 0>>, <<1, 0, 0>>, <<1, 1, 0>>>> ELSE <<<<0, 0, 0>>, <<0, 0, 1>>>>

\* the elements of a nested list in row-major order
RECURSIVE ravel(_)
ravel(rows) == IF rows = <<>> THEN <<>> ELSE Head(rows) \o ravel(Tail(rows))

\* np.reshape(a, (-1, 3)): rows of three consecutive elements, ValueError
\* when the number of elements is not a multiple of three
reshape(a) == IF Len(ravel(a)) % 3 # 0 THEN [err |-> "ValueError"] ELSE [err |-> "ok", rows |-> [i \in 1..(Len(ravel(a)) \div 3) |-> SubSeq(ravel(a), 3 * i - 2, 3 * i)]]

\* an array stored as the value of a variable
Array(rows) == [array |-> rows]

\* the keyword arguments of a call, listed in the iteration order of the dict
kwargs(pairs, order) == [j \in DOMAIN order |-> [k |-> order[j], v |-> Get(pairs, order[j])]]

\* set_kpath that counts the points of the path
set_kpath_points(obj, ndivsm, kptbounds, iscf, order) == LET r == reshape(IF kptbounds = None THEN calc_kptbounds(obj.structure) ELSE kptbounds.list) IN IF r.err # "ok" THEN [obj |-> obj, err |-> r.err] ELSE LET s == set_vars(obj, kwargs(<<[k |-> "kptbounds", v |-> Array(r.rows)], [k |-> "kptopt", v |-> Num(-Len(r.rows))], [k |-> "ndivsm", v |-> ndivsm], [k |-> "iscf", v |-> IF iscf = None THEN Num(-2) ELSE iscf]>>, order), 0) IN [obj |-> s.obj, err |-> s.err]

\* AbinitInput.set_kpath: kptbounds is None or a list, iscf is None when the
\* caller leaves it to the default, order is the iteration order of kwargs
set_kpath(obj, ndivsm, kptbounds, iscf, order) == LET r == reshape(IF kptbounds = None THEN calc_kptbounds(obj.structure) ELSE kptbounds.list) IN IF r.err # "ok" THEN [obj |-> obj, err |-> r.err] ELSE LET s == set_vars(obj, kwargs(<<[k |-> "kptbounds", v |-> Array(r.rows)], [k |-> "kptopt", v |-> Num(-(Len(r.rows) - 1))], [k |-> "ndivsm", v |-> ndivsm], [k |-> "iscf", v |-> IF iscf = None THEN Num(-2) ELSE iscf]>>, order), 0) IN [obj |-> s.obj, err |-> s.err]

\* the names set_kpath passes to set_vars
KpathNames == <<"kptbounds", "kptopt", "ndivsm", "iscf">>

\* the first n points of the route a caller follows
Route(n) == [i \in 1..n |-> <<i - 1, 0, 0>>]

\* the kptbounds arguments: the default, lists of points (the empty list
\* included), and a list of four numbers
KpathArguments == {None} \cup {List(Route(n)) : n \in 0..(MaxLen + 1)} \cup {List(<<<<0, 0, 0, 1>>>>)}

\* inp.set_kpath(ndivsm, kptbounds, iscf)
SetKpath ==
    \E ndivsm \in {Num(5)}, kptbounds \in KpathArguments, iscf \in {None, Num(1)}, order \in Orders(KpathNames) :
        \E r \in {set_kpath(heap[1], ndivsm, kptbounds, iscf, order)} :
            /\ heap' = [heap EXCEPT ![1] = r.obj]
            /\ ret' = [op |-> "set_kpath", self |-> 1, ndivsm |-> ndivsm, kptbounds |-> kptbounds, iscf |-> iscf, err |-> r.err]
            /\ UNCHANGED <<outs, multi>>

\* an input on which set_kpath is called, before and after ecut is set
NextKpath ==
    \/ SetKpath
    \/ SetItem({1}, {"ecut"}, {Num(1)})

SpecKpath == InitSweep /\ [][NextKpath]_vars

---------------------------------------------------------------------------
(* Attribute access through MultiDataset.__getattr__.                      *)

\* a bound method
Method(name) == [method |-> name]

\* callable(m)
callable(m) == "method" \in DOMAIN m

\* getattr(obj, name) on an AbinitInput: properties, methods, or AttributeError
getattr(obj, name) == CASE name = "comment" -> [err |-> "ok", val |-> comment(obj)] [] name = "structure" -> [err |-> "ok", val |-> obj.structure] [] name = "pseudos" -> [err |-> "ok", val |-> List(obj.pseudos)] [] name = "decorators" -> [err |-> "ok", val |-> List(obj.decorators)] [] name \in {"set_vars", "remove_vars", "set_comment"} -> [err |-> "ok", val |-> Method(name)] [] OTHER -> [err |-> "AttributeError"]

\* MultiDataset.__getattr__: the list on_all() builds for a member that is
\* not callable, the wrapper on_all for a callable one
multi_getattr(h, inputs, name) == LET m == getattr(h[inputs[1]], name) IN IF m.err # "ok" THEN [err |-> m.err] ELSE IF m.val = None THEN [err |-> "AttributeError"] ELSE IF callable(m.val) THEN [err |-> "ok", val |-> Method(name)] ELSE [err |-> "ok", val |-> List([i \in DOMAIN inputs |-> getattr(h[inputs[i]], name).val])]

\* the names a caller reads on a MultiDataset
AttrNames == {"comment", "structure", "pseudos", "decorators", "set_vars", "nosuch"}

\* value = multi.<name>
GetAttr ==
    \E name \in AttrNames :
        \E r \in {multi_getattr(heap, multi, name)} :
            /\ ret' = [op |-> "getattr", name |-> name, err |-> r.err, val |-> IF r.err = "ok" THEN r.val ELSE None]
            /\ UNCHANGED <<heap, outs, multi>>

---------------------------------------------------------------------------
(* Composition of a MultiDataset from inputs the caller has built: outs is *)
(* the caller's list of inputs.                                            *)

\* any(p1 != p2 for p1, p2 in zip(p, q)): zip stops at the shorter list
pseudos_differ(p, q) == \E i \in DOMAIN p \cap DOMAIN q : p[i] # q[i]

\* **inp: the items of an input in the iteration order of the keyword dict
mapping_items(obj, order) == [j \in DOMAIN order |-> [k |-> order[j], v |-> Get(obj.vars, order[j])]]

\* from_inputs that leaves the new datasets without variables
from_inputs_empty(h, inputs, orders) == IF inputs = <<>> THEN [err |-> "IndexError"] ELSE IF \E i \in DOMAIN inputs : pseudos_differ(h[inputs[1]].pseudos, h[inputs[i]].pseudos) THEN [err |-> "ValueError"] ELSE LET m == multi_init(Many([i \in DOMAIN inputs |-> h[inputs[i]].structure]), h[inputs[1]].pseudos, Len(inputs)) IN IF m.err # "ok" THEN [err |-> m.err] ELSE [err |-> "ok", new |-> allocate(h, m.inputs, <<>>)]

\* MultiDataset.from_inputs; orders[i] is the order in which the keyword
\* dict built from input i is iterated
from_inputs(h, inputs, orders) == IF inputs = <<>> THEN [err |-> "IndexError"] ELSE IF \E i \in DOMAIN inputs : pseudos_differ(h[inputs[1]].pseudos, h[inputs[i]].pseudos) THEN [err |-> "ValueError"] ELSE LET m == multi_init(Many([i \in DOMAIN inputs |-> h[inputs[i]].structure]), h[inputs[1]].pseudos, Len(inputs)) IN IF m.err # "ok" THEN [err |-> m.err] ELSE LET filled == [i \in DOMAIN inputs |-> set_vars(m.inputs[i], mapping_items(h[inputs[i]], orders[i]), 0)] IN IF \E i \in DOMAIN filled : filled[i].err # "ok" THEN [err |-> "AbinitInputError"] ELSE [err |-> "ok", new |-> allocate(h, [i \in DOMAIN filled |-> filled[i].obj], <<>>)]

\* the iteration orders of the keyword dicts of a from_inputs call
InputOrders(h, inputs) == {f \in [DOMAIN inputs -> UNION {Orders(KeyList(h[inputs[i]].vars)) : i \in DOMAIN inputs}] : \A i \in DOMAIN inputs : f[i] \in Orders(KeyList(h[inputs[i]].vars))}

\* MultiDataset.append: the input itself is stored
append(inputs, id) == Append(inputs, id)

\* MultiDataset.extend
extend(inputs, ids) == inputs \o ids

\* the crystals and pseudopotential files a caller builds inputs from
ComposeStructures == {Cubic, SiGe}
ComposePseudos == {<<"Si.pspnc">>, <<"Si.paw">>, <<"Si.pspnc", "Ge.pspnc">>}

\* inputs.append(AbinitInput(structure, pseudos, vars=seed))
NewInput ==
    \E s \in ComposeStructures, p \in ComposePseudos, seed \in {<<>>, <<[k |-> "ecut", v |-> Num(1)]>>} :
        /\ Len(outs) < MaxLen
        /\ \E r \in {init(s, p, None, None, seed)} :
            \E a \in {IF r.err = "ok" THEN allocate(heap, <<r.obj>>, <<>>) ELSE [heap |-> heap, ids |-> <<>>]} :
                /\ heap' = a.heap
                /\ outs' = outs \o a.ids
                /\ ret' = [op |-> "new_input", err |-> r.err]
        /\ UNCHANGED multi

\* multi = MultiDataset.from_inputs(inputs)
FromInputs ==
    \E orders \in InputOrders(heap, outs) :
        \E r \in {from_inputs(heap, outs, orders)} :
            /\ heap' = IF r.err = "ok" THEN Retain(r.new.heap, Range(outs) \cup Range(r.new.ids)) ELSE heap
            /\ multi' = IF r.err = "ok" THEN r.new.ids ELSE multi
            /\ ret' = [op |-> "from_inputs", err |-> r.err]
            /\ UNCHANGED outs

\* multi.append(inputs[i])
AppendInput ==
    \E i \in DOMAIN outs :
        /\ Len(multi) < MaxDatasets
        /\ multi' = append(multi, outs[i])
        /\ ret' = [op |-> "append", err |-> "ok"]
        /\ UNCHANGED <<heap, outs>>

\* multi.extend(inputs)
ExtendInputs ==
    /\ outs # <<>>
    /\ Len(multi) + Len(outs) <= MaxDatasets
    /\ multi' = extend(multi, outs)
    /\ ret' = [op |-> "extend", err |-> "ok"]
    /\ UNCHANGED <<heap, outs>>

NextCompose ==
    \/ NewInput
    \/ FromInputs
    \/ AppendInput
    \/ ExtendInputs
    \/ AddnewFrom
    \/ MultiConstruct

SpecCompose == InitMulti /\ [][NextCompose]_vars

\* a MultiDataset of one dataset, and one more input the caller holds
InitRead ==
    /\ heap = [o \in {1, 2} |-> IF o = 1 THEN init(Cubic, <<"Si.pspnc">>, None, None, <<>>).obj ELSE init(Tetragonal, <<"Si.pspnc">>, None, None, <<[k |-> "ixc", v |-> Num(1)]>>).obj]
    /\ outs = <<2>>
    /\ multi = <<1>>
    /\ ret = [op |-> "new", err |-> "ok"]

\* a MultiDataset that grows, whose datasets are edited, and that is read
NextRead ==
    \/ AddnewFrom
    \/ AppendInput
    \/ ExtendInputs
    \/ SetComment(Range(multi))
    \/ SetItem(Range(multi), {"ecut"}, {Num(1)})
    \/ GetAttr
    \/ MultiStr

SpecRead == InitRead /\ [][NextRead]_vars

\* inputs the caller builds and edits, a MultiDataset built from them, and
\* edits of its datasets
NextFromInputs ==
    \/ NewInput
    \/ FromInputs
    \/ SetItem(Range(outs) \cup Range(multi), {"ecut"}, {Num(2)})
    \/ DelItem(Range(outs) \cup Range(multi), {"ecut"})

SpecFromInputs == InitRead /\ [][NextFromInputs]_vars

\* a MultiDataset to which the caller appends an input and copies of its
\* datasets, and whose datasets are edited
NextClone ==
    \/ AddnewFrom
    \/ AppendInput
    \/ SetItem(Range(multi), {"ecut"}, Values)
    \/ DelItem(Range(multi), {"ecut"})

SpecClone == InitRead /\ [][NextClone]_vars

---------------------------------------------------------------------------
(* AnaddbInput: the variables of an ANADDB run, checked against the ANADDB *)
(* vocabulary, and the constructors that fill in the variables of a task.  *)
(* An AnaddbInput has the fields vars, structure and comment.              *)

\* the names of the ANADDB database
AnaddbNames == {"ifcflag", "asr", "chneut", "dipdip", "brav", "ngqpt", "nqshft", "q1shft", "nqpath", "qpath", "ndivsm", "ng2qpt", "prtdos", "dosdeltae", "dossmear", "thmflag", "ngrids", "nchan", "nwchan", "thmtol", "ntemper", "temperinc", "tempermin", "enunit", "eivec", "dieflag", "nph1l", "qph1l", "nph2l", "qph2l"}

\* abipy.abio.abivars.is_anaddb_var: membership in the ANADDB database
is_anaddb_var(key) == key \in AnaddbNames

\* AnaddbInput._check_varname: "ok" or the exception it raises
anaddb_check_varname(key) == IF ~is_anaddb_var(key) THEN "AnaddbInputError" ELSE "ok"

\* the first failing key of the constructor's loop over vars
RECURSIVE anaddb_check_seed(_)
anaddb_check_seed(seed) == IF seed = <<>> THEN "ok" ELSE IF anaddb_check_varname(Head(seed).k) # "ok" THEN anaddb_check_varname(Head(seed).k) ELSE anaddb_check_seed(Tail(seed))

\* AnaddbInput.__init__: seed lists vars in the iteration order of
\* OrderedDict(**vars)
anaddb_init(structure, text, seed) == IF anaddb_check_seed(seed) # "ok" THEN [err |-> anaddb_check_seed(seed)] ELSE [err |-> "ok", obj |-> [vars |-> seed, structure |-> structure, comment |-> Comment(text)]]

\* AnaddbInput.__setitem__
anaddb_setitem(obj, key, value) == IF anaddb_check_varname(key) # "ok" THEN [obj |-> obj, err |-> anaddb_check_varname(key)] ELSE [obj |-> [obj EXCEPT !.vars = DictSet(@, key, value)], err |-> "ok"]

\* AnaddbInput.__delitem__
anaddb_delitem(obj, key) == IF Has(obj.vars, key) THEN [obj |-> [obj EXCEPT !.vars = DictDel(@, key)], err |-> "ok"] ELSE [obj |-> obj, err |-> "KeyError"]

\* AnaddbInput.set_vars: items are the pairs in the iteration order of kwargs
RECURSIVE anaddb_set_vars(_, _)
anaddb_set_vars(obj, items) == IF items = <<>> THEN [obj |-> obj, err |-> "ok"] ELSE LET r == anaddb_setitem(obj, Head(items).k, Head(items).v) IN IF r.err # "ok" THEN [obj |-> obj, err |-> r.err] ELSE anaddb_set_vars(r.obj, Tail(items))

\* one keyword argument
Pair(key, value) == [k |-> key, v |-> value]

Reverse(list) == [i \in DOMAIN list |-> list[Len(list) + 1 - i]]

\* the keyword arguments of a call in the order the dict is iterated: as
\* written, or reversed
ordered(pairs, reversed) == IF reversed THEN Reverse(pairs) ELSE pairs

\* Structure.calc_ngkpt(nksmall): nksmall divisions along the longest
\* lattice vector, more along the shorter ones
calc_ngkpt(s, nksmall) == [vector |-> [i \in 1..3 |-> (nksmall * s.lattice[3][3]) \div s.lattice[i][i]]]

\* AnaddbInput.set_autoqmesh
set_autoqmesh(obj, nqsmall) == anaddb_set_vars(obj, <<Pair("ng2qpt", calc_ngkpt(obj.structure, nqsmall))>>)

\* AnaddbInput.set_qpath
set_qpath(obj, ndivsm, qptbounds, reversed) == LET r == reshape(IF qptbounds = None THEN calc_kptbounds(obj.structure) ELSE qptbounds.list) IN IF r.err # "ok" THEN [obj |-> obj, err |-> r.err] ELSE anaddb_set_vars(obj, ordered(<<Pair("ndivsm", ndivsm), Pair("nqpath", Num(Len(r.rows))), Pair("qpath", Array(r.rows))>>, reversed))

---------------------------------------------------------------------------
(* The dos_method argument.  A string is the sequence of its tokens: the   *)
(* words tetra and gaussian, a colon, a blank, a number and a unit.        *)

\* sub in s, for a sub that is one token
contains(s, sub) == \E i \in DOMAIN s : s[i] = sub

\* s.find(c): the 0-based position of the first c, or -1
find(s, c) == IF contains(s, c) THEN (CHOOSE i \in DOMAIN s : s[i] = c /\ \A j \in 1..(i - 1) : s[j] # c) - 1 ELSE -1

\* s.split(): the maximal runs of tokens that are not blanks
RECURSIVE split(_, _, _)
split(s, word, words) == IF s = <<>> THEN (IF word = <<>> THEN words ELSE Append(words, word)) ELSE IF Head(s) = " " THEN split(Tail(s), <<>>, IF word = <<>> THEN words ELSE Append(words, word)) ELSE split(Tail(s), Append(word, Head(s)), words)

\* float(value) succeeds
is_float(word) == word = <<"0.001">>

\* Energy(value, eunit) succeeds
is_energy_unit(word) == word = <<"eV">>

\* Energy(float(value), eunit).to("Ha")
Energy(value, eunit) == [energy |-> value, unit |-> eunit, to |-> "Ha"]

\* the first statements of phbands_and_dos: prtdos and dossmear from
\* dos_method, or the exception raised
dos_options(dos_method) ==
    IF dos_method = <<"tetra">> THEN [err |-> "ok", prtdos |-> Num(2), dossmear |-> None]
    ELSE IF contains(dos_method, "gaussian") THEN
        IF find(dos_method, ":") = -1 THEN [err |-> "ok", prtdos |-> Num(1), dossmear |-> None]
        ELSE LET words == split(SubSeq(dos_method, find(dos_method, ":") + 2, Len(dos_method)), <<>>, <<>>) IN
            IF Len(words) # 2 THEN [err |-> "ValueError"]
            ELSE IF ~is_float(words[1]) THEN [err |-> "ValueError"]
            ELSE IF ~is_energy_unit(words[2]) THEN [err |-> "UnitError"]
            ELSE [err |-> "ok", prtdos |-> Num(1), dossmear |-> Energy(words[1], words[2])]
    ELSE [err |-> "AnaddbInputError"]

\* AnaddbInput.phbands_and_dos; args holds ngqpt, nqsmall, ndivsm, q1shft,
\* qptbounds, asr, chneut and dipdip
phbands_and_dos(structure, args, dos_method, seed, reversed) ==
    LET d == dos_options(dos_method) IN
    IF d.err # "ok" THEN [err |-> d.err]
    ELSE LET new == anaddb_init(structure, "ANADB input for phonon bands and DOS", seed) IN
    IF new.err # "ok" THEN [err |-> new.err]
    ELSE LET a == set_autoqmesh(new.obj, args.nqsmall)
             b == anaddb_set_vars(a.obj, ordered(<<Pair("prtdos", d.prtdos), Pair("dosdeltae", None), Pair("dossmear", d.dossmear)>>, reversed))
             c == set_qpath(b.obj, args.ndivsm, args.qptbounds, reversed)
             q == reshape(args.q1shft)
         IN IF a.err # "ok" THEN [err |-> a.err]
            ELSE IF b.err # "ok" THEN [err |-> b.err]
            ELSE IF c.err # "ok" THEN [err |-> c.err]
            ELSE IF q.err # "ok" THEN [err |-> q.err]
            ELSE anaddb_set_vars(c.obj, ordered(<<Pair("ifcflag", Num(1)), Pair("ngqpt", [vector |-> args.ngqpt]), Pair("q1shft", Array(q.rows)), Pair("nqshft", Num(Len(q.rows))), Pair("asr", args.asr), Pair("chneut", args.chneut), Pair("dipdip", args.dipdip)>>, reversed))

\* AnaddbInput.modes_at_qpoint with the default asr, chneut and dipdip
modes_at_qpoint(structure, qpoint, seed, reversed) ==
    LET new == anaddb_init(structure, "ANADB input for phonon frequencies at one q-point", seed) IN
    IF new.err # "ok" THEN [err |-> new.err]
    ELSE anaddb_set_vars(new.obj, ordered(<<Pair("ifcflag", Num(1)), Pair("asr", Num(2)), Pair("chneut", Num(1)), Pair("dipdip", Num(1)), Pair("ngqpt", [vector |-> <<1, 1, 1>>]), Pair("nqshft", Num(1)), Pair("q1shft", [vector |-> qpoint]), Pair("nqpath", Num(2)), Pair("qpath", [vector |-> qpoint \o <<0, 0, 0>>]), Pair("ndivsm", Num(1))>>, reversed))

\* AnaddbInput.thermo with the default values of its optional arguments
thermo(structure, ngqpt, nqsmall, seed, reversed) ==
    LET new == anaddb_init(structure, "ANADB input for thermodynamics", seed) IN
    IF new.err # "ok" THEN [err |-> new.err]
    ELSE LET a == set_autoqmesh(new.obj, nqsmall)
             q == reshape(<<<<0, 0, 0>>>>)
         IN IF a.err # "ok" THEN [err |-> a.err]
            ELSE anaddb_set_vars(a.obj, ordered(<<Pair("ifcflag", Num(1)), Pair("thmflag", Num(1)), Pair("ngqpt", [vector |-> ngqpt]), Pair("ngrids", Num(10)), Pair("q1shft", Array(q.rows)), Pair("nqshft", Num(Len(q.rows))), Pair("asr", Num(2)), Pair("chneut", Num(1)), Pair("dipdip", Num(1)), Pair("nchan", Num(1250)), Pair("nwchan", Num(5)), Pair("thmtol", Rat(1, 2)), Pair("ntemper", Num(199)), Pair("temperinc", Num(5)), Pair("tempermin", Num(5))>>, reversed))

\* AnaddbInput.modes with the default enunit, asr and chneut
modes(structure, seed, reversed) ==
    LET new == anaddb_init(structure, "ANADB input for modes", seed) IN
    IF new.err # "ok" THEN [err |-> new.err]
    ELSE anaddb_set_vars(new.obj, ordered(<<Pair("enunit", Num(2)), Pair("eivec", Num(1)), Pair("ifcflag", Num(1)), Pair("dieflag", Num(1)), Pair("ngqpt", [vector |-> <<1, 1, 1>>]), Pair("asr", Num(2)), Pair("chneut", Num(1)), Pair("nph1l", Num(1)), Pair("qph1l", [vector |-> <<0, 0, 0, 1>>]), Pair("nph2l", Num(3)), Pair("qph2l", Array(<<<<1, 0, 0, 0>>, <<0, 1, 0, 0>>, <<0, 0, 1, 0>>>>))>>, reversed))

\* the tokens short dos_method arguments are made of
DosTokens == {"tetra", "gaussian", ":", "eV"}

\* the dos_method arguments: every short string, and the documented form
\* "gaussian:0.001 eV" with and without its blank
DosMethods == SeqsUpTo(DosTokens, MaxLen) \cup {<<"gaussian", ":", "0.001", " ", "eV">>, <<"gaussian", ":", "0.001", "eV">>, <<"gaussian", ":", " ", "0.001", " ", " ", "eV", " ">>}

\* the vars argument of the constructors: none, a name of the ANADDB
\* database, a name of the ABINIT database
AnaddbSeeds == {<<>>, <<Pair("brav", Num(1))>>, <<Pair("ecut", Num(1))>>}

\* the qptbounds and vars arguments of phbands_and_dos: the defaults, two
\* points with a variable, four numbers, and a name of the ABINIT database
PhbandsArguments == {[qptbounds |-> None, seed |-> <<>>], [qptbounds |-> List(Route(2)), seed |-> <<Pair("brav", Num(1))>>], [qptbounds |-> List(<<<<0, 0, 0, 1>>>>), seed |-> <<>>], [qptbounds |-> None, seed |-> <<Pair("ecut", Num(1))>>]}

InitAnaddb ==
    /\ heap = [o \in {1} |-> anaddb_init(Cubic, "", <<>>).obj]
    /\ outs = <<>>
    /\ multi = <<>>
    /\ ret = [op |-> "new", err |-> "ok"]

\* inp = AnaddbInput.phbands_and_dos(structure, ngqpt, nqsmall, qptbounds=qptbounds, dos_method=dos_method, vars=seed)
PhbandsAndDos ==
    \E structure \in {Cubic}, dos_method \in DosMethods, given \in PhbandsArguments, reversed \in BOOLEAN :
        \E r \in {phbands_and_dos(structure, [ngqpt |-> <<4, 4, 4>>, nqsmall |-> 2, ndivsm |-> Num(20), q1shft |-> <<<<0, 0, 0>>>>, qptbounds |-> given.qptbounds, asr |-> Num(2), chneut |-> Num(0), dipdip |-> Num(1)], dos_method, given.seed, reversed)} :
            /\ heap' = IF r.err = "ok" THEN [o \in {1} |-> r.obj] ELSE heap
            /\ ret' = [op |-> "phbands_and_dos", structure |-> structure, dos_method |-> dos_method, qptbounds |-> given.qptbounds, seed |-> given.seed, err |-> r.err]
            /\ UNCHANGED <<outs, multi>>

\* inp = AnaddbInput.modes_at_qpoint(...), AnaddbInput.thermo(...) or AnaddbInput.modes(...)
NamedConstructor ==
    \E name \in {"modes_at_qpoint", "thermo", "modes"}, structure \in {Cubic, Tetragonal}, seed \in AnaddbSeeds, reversed \in BOOLEAN :
        \E r \in {CASE name = "modes_at_qpoint" -> modes_at_qpoint(structure, <<1, 0, 0>>, seed, reversed) [] name = "thermo" -> thermo(structure, <<4, 4, 4>>, 2, seed, reversed) [] OTHER -> modes(structure, seed, reversed)} :
            /\ heap' = IF r.err = "ok" THEN [o \in {1} |-> r.obj] ELSE heap
            /\ ret' = [op |-> name, structure |-> structure, seed |-> seed, err |-> r.err]
            /\ UNCHANGED <<outs, multi>>

\* inp[key] = value on an AnaddbInput
AnaddbSetItem ==
    \E key \in {"brav", "ecut"}, value \in {Num(1)} :
        \E r \in {anaddb_setitem(heap[1], key, value)} :
            /\ heap' = [heap EXCEPT ![1] = r.obj]
            /\ ret' = [op |-> "setitem", self |-> 1, key |-> key, value |-> value, err |-> r.err]
            /\ UNCHANGED <<outs, multi>>

\* del inp[key] on an AnaddbInput
AnaddbDelItem ==
    \E key \in {"brav"} :
        \E r \in {anaddb_delitem(heap[1], key)} :
            /\ heap' = [heap EXCEPT ![1] = r.obj]
            /\ ret' = [op |-> "delitem", self |-> 1, key |-> key, err |-> r.err]
            /\ UNCHANGED <<outs, multi>>

NextAnaddb ==
    \/ PhbandsAndDos
    \/ NamedConstructor
    \/ AnaddbSetItem
    \/ AnaddbDelItem

SpecAnaddb == InitAnaddb /\ [][NextAnaddb]_vars

---------------------------------------------------------------------------
(* Properties of item assignment, set_vars, remove_vars and set_structure. *)

\* C1: assigning any value to a name reserved for the structure raises
\* AbinitInputError and leaves every stored variable as it was.
C1_GeometrySetRaises == [][(ret'.op = "setitem" /\ ret'.key \in GeometryNames) => (ret'.err = "AbinitInputError" /\ heap' = heap)]_vars

\* C2: no key of the stored variables of any object is a name reserved for
\* the structure.
C2_NoGeometryKeyStored == \A o \in Live : Keys(heap[o].vars) \cap GeometryNames = {}

\* C3: every stored key is a name of the ABINIT database, and a key whose
\* check failed in an item assignment is not in the mapping.
C3_StoredKeysLegal ==
    /\ \A o \in Live : \A key \in Keys(heap[o].vars) : is_abivar(key)
    /\ (ret.op = "setitem" /\ ret.err # "ok") => ~Has(heap[ret.self].vars, ret.key)

\* a set_vars call that stored one pair and then met a name that fails the check
C3_Witness == ret.op = "set_vars" /\ ret.err = "AbinitInputError" /\ ret.n = 1 /\ heap[ret.self].vars # <<>>

\* C4: a set_vars call that raises leaves the stored variables as they were
\* before the call.
C4_SetVarsAllOrNothing == [][(ret'.op = "set_vars" /\ ret'.err # "ok") => heap' = heap]_vars

\* C5: the structure held by any object has a strictly positive triple
\* product of its lattice vectors, also after a set_structure that raised.
C5_PositiveTripleProduct == \A o \in Live : TripleProduct(heap[o].structure.lattice) > 0

\* positions of keys at which remove_vars must raise: the key is not stored
\* or already occurred earlier in the same call
BadPositions(d, ks) == {i \in DOMAIN ks : ~Has(d, ks[i]) \/ \E j \in 1..(i - 1) : ks[j] = ks[i]}

Minimum(S) == CHOOSE x \in S : \A y \in S : x <= y

\* the number of leading keys remove_vars removes
RemovedPrefix(d, ks) == IF BadPositions(d, ks) = {} THEN Len(ks) ELSE Minimum(BadPositions(d, ks)) - 1

\* C6: remove_vars removes the names in input order; at the first name that
\* is absent or repeated it raises KeyError with the earlier names removed
\* and everything else untouched; otherwise it returns the removed values in
\* input order and exactly those keys are gone.
C6_RemoveVarsSequential ==
    [][ret'.op = "remove_vars" =>
        LET o == ret'.self
            ks == ret'.keys
            d == heap[o].vars
            n == RemovedPrefix(d, ks)
            gone == {ks[i] : i \in 1..n}
        IN  /\ ret'.err = (IF n = Len(ks) THEN "ok" ELSE "KeyError")
            /\ ret'.values = [i \in 1..n |-> Get(d, ks[i])]
            /\ heap'[o].vars = SelectSeq(d, LAMBDA e : e.k \notin gone)
            /\ heap'[o].structure = heap[o].structure
            /\ \A other \in Live \ {o} : heap'[other] = heap[other]]_vars

\* a remove_vars call that raised after it had removed a name
C6_Witness == ret.op = "remove_vars" /\ ret.err = "KeyError" /\ Len(ret.values) >= 1

---------------------------------------------------------------------------
(* Properties of the sweeps.                                               *)

\* the value v is the rational n / d
IsRational(v, n, d) == v.den > 0 /\ v.num * d = n * v.den

\* a copy c of the receiver r in which only the variables of names differ
CopyExcept(c, r, names) ==
    /\ Keys(c.vars) = Keys(r.vars) \cup names
    /\ SelectSeq(c.vars, LAMBDA e : e.k \notin names) = SelectSeq(r.vars, LAMBDA e : e.k \notin names)
    /\ c.structure = r.structure
    /\ c.pseudos = r.pseudos

\* the list holds n objects, pairwise distinct and distinct from the receiver
FreshObjects(list, h, n) ==
    /\ Len(list) = n
    /\ \A i \in DOMAIN list : list[i] # 1 /\ list[i] \in DOMAIN h
    /\ \A i, j \in DOMAIN list : list[i] = list[j] => i = j

\* the number of values arange generates: the i >= 0 with start + i * step
\* strictly before stop
ArangeCount(start, stop, step) == Cardinality({i \in 0..Abs(stop - start) : IF step > 0 THEN start + i * step < stop ELSE start + i * step > stop})

\* an edit of one object leaves every other object and the returned list alone
EditIsLocal == (ret'.op \in {"setitem", "delitem"}) => (outs' = outs /\ DOMAIN heap' = DOMAIN heap /\ \A o \in DOMAIN heap \ {ret'.self} : heap'[o] = heap[o])

\* C7: linspace and arange called with a name the vocabulary admits return
\* one new input per generated value, in the order of the values, each a
\* copy of the receiver in which only that name differs and holds the value;
\* the receiver is unchanged, and a later assignment or deletion on a
\* returned input changes no other object.
C7_SweepsReturnIndependentCopies ==
    [][/\ (ret'.op = "linspace" /\ ret'.varname = "ecut") =>
            LET div == IF ret'.endpoint THEN ret'.num - 1 ELSE ret'.num IN
            /\ ret'.err = "ok"
            /\ FreshObjects(outs', heap', ret'.num)
            /\ heap'[1] = heap[1]
            /\ \A i \in DOMAIN outs' :
                /\ CopyExcept(heap'[outs'[i]], heap[1], {"ecut"})
                /\ IF div = 0 THEN IsRational(Get(heap'[outs'[i]].vars, "ecut"), ret'.start, 1)
                   ELSE IsRational(Get(heap'[outs'[i]].vars, "ecut"), ret'.start * div + (i - 1) * (ret'.stop - ret'.start), div)
       /\ (ret'.op = "arange" /\ ret'.varname = "ecut") =>
            /\ ret'.err = "ok"
            /\ FreshObjects(outs', heap', ArangeCount(ret'.start, ret'.stop, ret'.step))
            /\ heap'[1] = heap[1]
            /\ \A i \in DOMAIN outs' :
                /\ CopyExcept(heap'[outs'[i]], heap[1], {"ecut"})
                /\ IsRational(Get(heap'[outs'[i]].vars, "ecut"), ret'.start + (i - 1) * ret'.step, 1)
       /\ EditIsLocal]_vars

\* an input returned by a sweep of three values has been edited
C7_Witness == ret.op \in {"setitem", "delitem"} /\ ret.err = "ok" /\ ret.self \in Range(outs) /\ Len(outs) = 3 /\ Has(heap[1].vars, "ecut")

\* the number of leading str arguments of a product call
LeadingNames(items) == Cardinality({j \in DOMAIN items : \A j2 \in 1..j : is_string(items[j2])})

\* k names, pairwise distinct, followed by k lists
WellFormedProduct(items) ==
    LET k == LeadingNames(items) IN
    /\ k >= 1
    /\ Len(items) = 2 * k
    /\ \A j \in (k + 1)..Len(items) : ~is_string(items[j])
    /\ \A i, j \in 1..k : items[i] = items[j] => i = j

\* the product of the lengths of the lists after position i
RECURSIVE Stride(_, _)
Stride(lists, i) == IF i >= Len(lists) THEN 1 ELSE Len(lists[i + 1]) * Stride(lists, i + 1)

\* C8: product with names n1..nk and lists L1..Lk returns |L1|*...*|Lk| new
\* inputs, one per tuple of the cartesian product in lexicographic order
\* (the first list varies slowest); input t binds each ni to component i of
\* tuple t and is otherwise a copy of the receiver, which is unchanged.
C8_ProductLexicographic ==
    [][(ret'.op = "product" /\ WellFormedProduct(ret'.items)) =>
        LET k == LeadingNames(ret'.items)
            names == [i \in 1..k |-> ret'.items[i].s]
            lists == [i \in 1..k |-> ret'.items[k + i].l]
        IN  /\ ret'.err = "ok"
            /\ FreshObjects(outs', heap', Stride(lists, 0))
            /\ heap'[1] = heap[1]
            /\ \A t \in DOMAIN outs' :
                /\ CopyExcept(heap'[outs'[t]], heap[1], Range(names))
                /\ \A i \in 1..k : Get(heap'[outs'[t]].vars, names[i]) = lists[i][(((t - 1) \div Stride(lists, i)) % Len(lists[i])) + 1]]_vars

\* product("ecut", "ixc", [1, 2], [10, 20]) has returned its four inputs
C8_Witness == ret.op = "product" /\ ret.err = "ok" /\ Len(outs) = 4 /\ Len(ret.items) = 4 /\ ret.items[3] # ret.items[4] /\ ret.items[1] # ret.items[2] /\ Get(heap[outs[2]].vars, "ecut") = Num(1) /\ Get(heap[outs[2]].vars, "ixc") = Num(20)

\* C9: a product call whose leading names and value lists differ in number,
\* or that has no arguments, raises AbinitInputError, returns nothing and
\* leaves the receiver unchanged.
C9_ProductMismatchRaises ==
    [][(ret'.op = "product" /\ (ret'.items = <<>> \/ 2 * LeadingNames(ret'.items) # Len(ret'.items))) =>
        (ret'.err = "AbinitInputError" /\ outs' = <<>> /\ heap'[1] = heap[1])]_vars

---------------------------------------------------------------------------
(* Properties of MultiDataset.                                             *)

\* C10: a forwarded call that returns has invoked the member once on every
\* dataset, in dataset order, and returns one result per dataset; after the
\* forwarded set_vars(ecut=10) every dataset holds ecut = 10 and nothing
\* else of it has changed.
C10_BroadcastReachesEveryDataset ==
    [][(ret'.op = "broadcast") =>
        /\ ret'.err = "ok" =>
            /\ ret'.calls = [i \in DOMAIN multi |-> i]
            /\ Len(ret'.results) = Len(multi)
            /\ ret'.name = "set_vars" => \A i \in DOMAIN multi : ret'.results[i] = ret'.args
            /\ ret'.name = "remove_vars" => \A i \in DOMAIN multi : ret'.results[i] = <<Get(heap[multi[i]].vars, "ecut")>> /\ ~Has(heap'[multi[i]].vars, "ecut")
        /\ (ret'.name = "set_vars" /\ ret'.args = <<[k |-> "ecut", v |-> Num(10)]>>) =>
            /\ ret'.err = "ok"
            /\ \A i \in DOMAIN multi :
                /\ Get(heap'[multi[i]].vars, "ecut") = Num(10)
                /\ CopyExcept(heap'[multi[i]], heap[multi[i]], {"ecut"})]_vars

\* set_vars(ecut=10) has been forwarded to three datasets that differed before
C10_Witness == ret.op = "broadcast" /\ ret.name = "set_vars" /\ ret.args = <<[k |-> "ecut", v |-> Num(10)]>> /\ Len(multi) = 3 /\ Len(heap[multi[1]].vars) # Len(heap[multi[3]].vars)

---------------------------------------------------------------------------
(* Properties of attribute access, composition and rendering of            *)
(* MultiDataset.                                                           *)

\* the members of AbinitInput that are plain values
PlainMembers == {"comment", "structure", "pseudos", "decorators"}

\* the value a plain member holds on one dataset
MemberValue(obj, name) == CASE name = "comment" -> obj.comment [] name = "structure" -> obj.structure [] name = "pseudos" -> List(obj.pseudos) [] OTHER -> List(obj.decorators)

\* C11: reading a plain member on a MultiDataset returns the list of the
\* member's current value on every dataset, in dataset order, whatever the
\* values are (an unset comment is None); AttributeError is raised only for
\* a name that AbinitInput does not have.
C11_PlainAttributeBroadcast ==
    /\ (ret.op = "getattr" /\ ret.name \in PlainMembers) => (ret.err = "ok" /\ ret.val = List([i \in DOMAIN multi |-> MemberValue(heap[multi[i]], ret.name)]))
    /\ (ret.op = "getattr" /\ ret.err = "AttributeError") => ret.name \notin PlainMembers \cup {"set_vars"}

\* C12: every dataset of a MultiDataset holds the same pseudopotentials as
\* the first dataset, after any construction, from_inputs, append, extend
\* and addnew_from.
C12_SamePseudosEverywhere == \A i \in DOMAIN multi : heap[multi[i]].pseudos = heap[multi[1]].pseudos

\* the exceptions with which the code reports a wrong configuration
ConfigurationErrors == {"AbinitInputError", "ValueError"}

\* C13: from_inputs on a list in which some input's pseudopotentials are not
\* equal to the first input's (different files, or a different number of
\* them, one list a prefix of the other included) raises a configuration
\* error and builds no MultiDataset.
C13_FromInputsRejectsMismatch ==
    [][(ret'.op = "from_inputs" /\ \E i \in DOMAIN outs : heap[outs[i]].pseudos # heap[outs[1]].pseudos) =>
        (ret'.err \in ConfigurationErrors /\ multi' = multi /\ heap' = heap)]_vars

\* the lines of a text that print a variable
VariableLines(text) == SelectSeq(text, LAMBDA line : line.kind = "variable")

\* the names printed by the variable lines of a text, in order
PrintedNames(text) == [j \in DOMAIN VariableLines(text) |-> VariableLines(text)[j].name]

\* the names of the variables derived from the structure, as printed
PrintedGeometry == <<"ntypat", "acell", "rprim">>

\* C14: str() of a MultiDataset with n > 1 datasets starts with the line
\* that declares n, followed by exactly n blocks in dataset order; the
\* block of dataset i (counted from 1) has the header DATASET i, prints the
\* stored variables and then the structure variables of that dataset, every
\* name with the suffix i, and the pseudopotential section is in the last
\* block only.
C14_MultiRender ==
    (ret.op = "str" /\ Len(multi) > 1) =>
        LET n == Len(multi) IN
        /\ Len(ret.text) = n + 1
        /\ ret.text[1] = [kind |-> "ndtset", n |-> n]
        /\ \A i \in 1..n :
            LET block == ret.text[i + 1] IN
            /\ block.kind = "block"
            /\ block.header = Str(str(i))
            /\ PrintedNames(block.text) = KeyList(heap[multi[i]].vars) \o PrintedGeometry
            /\ \A j \in DOMAIN VariableLines(block.text) : VariableLines(block.text)[j].post = str(i)
            /\ (\E j \in DOMAIN block.text : block.text[j].kind = "json") <=> i = n

\* three datasets have been rendered: the first with a comment, the second
\* appended by the caller, the third made by addnew_from
C14_Witness == ret.op = "str" /\ Len(multi) = 3 /\ multi[2] \in Range(outs) /\ multi[3] \notin Range(outs) /\ Has(heap[multi[2]].vars, "ecut") /\ ~Has(heap[multi[3]].vars, "ecut") /\ heap[multi[1]].comment # None

---------------------------------------------------------------------------
(* Properties of to_string.                                                *)

\* the printed names that are stored variables of the rendered input
StoredPrinted == SelectSeq(PrintedNames(ret.text), LAMBDA name : Has(heap[ret.self].vars, name))

\* C15: to_string(sortmode="a") prints the stored variables in ascending
\* alphabetical order of their names, whatever the order of insertion; with
\* the default sortmode it prints them in the order of insertion.
C15_AlphabeticalOrder ==
    (ret.op = "to_string" /\ ret.err = "ok") =>
        /\ Len(StoredPrinted) = Len(heap[ret.self].vars)
        /\ ret.sortmode = None => StoredPrinted = KeyList(heap[ret.self].vars)
        /\ ret.sortmode = Str("a") => \A i, j \in DOMAIN StoredPrinted : i < j => Rank(StoredPrinted[i]) < Rank(StoredPrinted[j])

\* C16 as stated: to_string with a sortmode other than None and "a" raises
\* AbinitInputError, the class raised for an invalid variable name, and
\* returns no text.
C16_UnsupportedSortRaisesAbinitInputError == (ret.op = "to_string" /\ ret.sortmode \notin {None, Str("a")}) => (ret.err = "AbinitInputError" /\ ret.text = <<>>)

\* C16 amended: to_string with a sortmode other than None and "a" raises
\* ValueError and returns no text, whatever the input holds and whatever
\* the other arguments are; with None or "a" it returns the text.
C16_UnsupportedSortRaisesValueError ==
    /\ (ret.op = "to_string" /\ ret.sortmode \notin {None, Str("a")}) => (ret.err = "ValueError" /\ ret.text = <<>>)
    /\ (ret.op = "to_string" /\ ret.sortmode \in {None, Str("a")}) => ret.err = "ok"

\* to_string("d") has been called on an input with two variables and a comment
C16_Witness == ret.op = "to_string" /\ ret.sortmode = Str("d") /\ Len(heap[ret.self].vars) = 2 /\ heap[ret.self].comment # None /\ ret.err # "ok"

---------------------------------------------------------------------------
(* Properties of new_with_decorators.                                      *)

\* the decorators of a call, as a sequence
DecoratorList(decorators) == IF "list" \in DOMAIN decorators THEN decorators.list ELSE <<decorators>>

\* the variables after the decorators have set theirs, one after the other
RECURSIVE Decorated(_, _)
Decorated(d, decs) == IF decs = <<>> THEN d ELSE Decorated(DictSet(d, Head(decs).key, Head(decs).value), Tail(decs))

\* C17: new_with_decorators with decorators d1..dk, k >= 1, calls d1 on the
\* receiver with deepcopy = True and every later di on the result of the
\* previous call with deepcopy = False, in list order; the receiver is
\* unchanged, and the returned input is a new object that holds the
\* receiver's variables with the settings of d1..dk applied in order and
\* the records of d1..dk appended to the receiver's decorator log.
C17_DecoratorsAppliedInOrder ==
    [][(ret'.op = "new_with_decorators" /\ DecoratorList(ret'.decorators) # <<>>) =>
        LET decs == DecoratorList(ret'.decorators) IN
        /\ ret'.err = "ok"
        /\ Len(ret'.calls) = Len(decs)
        /\ \A i \in DOMAIN decs :
            /\ ret'.calls[i].dec = decs[i]
            /\ ret'.calls[i].deepcopy = (i = 1)
            /\ ret'.calls[i].arg = (IF i = 1 THEN 1 ELSE ret'.calls[i - 1].result)
        /\ heap'[1] = heap[1]
        /\ FreshObjects(outs', heap', 1)
        /\ outs'[1] = ret'.calls[Len(decs)].result
        /\ heap'[outs'[1]].vars = Decorated(heap[1].vars, decs)
        /\ heap'[outs'[1]].structure = heap[1].structure
        /\ heap'[outs'[1]].decorators = heap[1].decorators \o [i \in DOMAIN decs |-> [class |-> "AbinitInputDecorator", key |-> decs[i].key, value |-> decs[i].value]]]_vars

\* two decorators that set the same variable have been applied to a receiver
\* that holds it already
C17_Witness == ret.op = "new_with_decorators" /\ Len(ret.calls) = 2 /\ ret.calls[1].dec.key = "ecut" /\ ret.calls[2].dec = Decorator("ecut", Num(2)) /\ ret.calls[1].dec # ret.calls[2].dec /\ Has(heap[1].vars, "ecut") /\ Get(heap[1].vars, "ecut") = Num(1) /\ Get(heap[outs[1]].vars, "ecut") = Num(2)

\* C18: new_with_decorators returns a new object, distinct from the
\* receiver, for every list of decorators, the empty list included, and an
\* assignment or deletion on the returned input leaves the receiver as it was.
C18_ResultIsNewObject ==
    [][/\ ret'.op = "new_with_decorators" => FreshObjects(outs', heap', 1)
       /\ (ret.op = "new_with_decorators" /\ ret'.op \in {"setitem", "delitem"} /\ ret'.self \in Range(outs)) => heap'[1] = heap[1]]_vars

---------------------------------------------------------------------------
(* Properties of as_dict and from_dict.                                    *)

\* the record of an entry of the decorator log
AuditRecord(dec) == [class |-> "AbinitInputDecorator", key |-> dec.key, value |-> dec.value]

\* C19: for every input reached by construction (with or without the
\* decorators argument), assignments, deletions and register_decorator,
\* as_dict succeeds, and from_dict of its result succeeds and gives an input
\* with the same keys and values, an equal structure, an equal list of
\* pseudopotentials and the same decorator records.
C19_RoundTrip ==
    /\ ret.op = "as_dict" => ret.err = "ok"
    /\ ret.op = "from_dict" =>
        /\ ret.err = "ok"
        /\ Len(outs) = 1
        /\ Keys(heap[outs[1]].vars) = Keys(heap[1].vars)
        /\ \A key \in Keys(heap[1].vars) : Get(heap[outs[1]].vars, key) = Get(heap[1].vars, key)
        /\ heap[outs[1]].structure = heap[1].structure
        /\ heap[outs[1]].pseudos = heap[1].pseudos
        /\ [i \in DOMAIN heap[outs[1]].decorators |-> AuditRecord(heap[outs[1]].decorators[i])] = [i \in DOMAIN heap[1].decorators |-> AuditRecord(heap[1].decorators[i])]

---------------------------------------------------------------------------
(* Properties of the construction of a MultiDataset.                       *)

\* C20: MultiDataset(structure, pseudos, ndtset) with ndtset <= 0, or with
\* a list of structures whose length is not ndtset, raises and builds
\* nothing; otherwise, for structures of positive volume, it builds exactly
\* ndtset distinct inputs with no variables, each with the one structure
\* given, or input i with element i of the list.
C20_ConstructYieldsCount ==
    [][ret'.op = "multi_init" =>
        LET n == ret'.ndtset
            st == ret'.structure
            single == "one" \in DOMAIN st
        IN  IF n <= 0 \/ (~single /\ Len(st.many) # n)
            THEN ret'.err # "ok" /\ multi' = multi /\ heap' = heap
            ELSE /\ ret'.err = "ok" <=> \A i \in 1..n : TripleProduct((IF single THEN st.one ELSE st.many[i]).lattice) > 0
                 /\ ret'.err = "ok" =>
                    /\ Len(multi') = n
                    /\ \A i, j \in 1..n : multi'[i] = multi'[j] => i = j
                    /\ \A i \in 1..n :
                        /\ heap'[multi'[i]].vars = <<>>
                        /\ heap'[multi'[i]].structure = (IF single THEN st.one ELSE st.many[i])]_vars

\* a MultiDataset has been built from a list of two different structures,
\* replacing one of three datasets
C20_Witness == ret.op = "multi_init" /\ ret.err = "ok" /\ "many" \in DOMAIN ret.structure /\ Len(multi) = 2 /\ heap[multi[1]].structure # heap[multi[2]].structure

---------------------------------------------------------------------------
(* Properties of rendering with respect to the structure.                  *)

\* the lines of a text that print a variable reserved for the structure
GeometryLines(text) == SelectSeq(text, LAMBDA line : line.kind = "variable" /\ line.name \in GeometryNames)

\* the suffix to_string appends to the names
Suffix(post) == IF post = None THEN "" ELSE post.s

\* C21: a construction or set_structure that returns installs the structure
\* it was given, one that raises installs nothing, and no assignment,
\* deletion or rendering replaces the structure; to_string with
\* with_structure prints, as variables reserved for the structure, exactly
\* the variables derived from the installed structure (none of them comes
\* from the stored variables), and without with_structure it prints exactly
\* the stored variables.
C21_RenderShowsInstalledStructure ==
    [][/\ (ret'.op = "init" /\ ret'.err = "ok") => heap'[1].structure = ret'.structure
       /\ ret'.op = "set_structure" => heap'[ret'.self].structure = (IF ret'.err = "ok" THEN ret'.structure ELSE heap[ret'.self].structure)
       /\ ret'.op \in {"setitem", "delitem", "to_string"} => heap'[ret'.self].structure = heap[ret'.self].structure
       /\ (ret'.op = "to_string" /\ ret'.err = "ok" /\ ret'.with_structure) => GeometryLines(ret'.text) = variable_lines(to_abivars(heap[ret'.self].structure), Suffix(ret'.post))
       /\ (ret'.op = "to_string" /\ ret'.err = "ok" /\ ~ret'.with_structure) => VariableLines(ret'.text) = variable_lines(heap[ret'.self].vars, Suffix(ret'.post))]_vars

---------------------------------------------------------------------------
(* Properties of set_kpath.                                                *)

\* the points of the path of a set_kpath call: the list given, or the
\* default path of the structure
PathOf(kptbounds, structure) == IF kptbounds = None THEN calc_kptbounds(structure) ELSE kptbounds.list

\* the path is a list of points
IsPath(path) == \A i \in DOMAIN path : Len(path[i]) = 3

\* what set_kpath stores for a path: the points, the division count, the
\* mode and minus the number of segments, and nothing else changes
StoresPath(path) ==
    /\ ret'.err = "ok"
    /\ Get(heap'[1].vars, "kptbounds") = Array(path)
    /\ Get(heap'[1].vars, "ndivsm") = ret'.ndivsm
    /\ Get(heap'[1].vars, "iscf") = (IF ret'.iscf = None THEN Num(-2) ELSE ret'.iscf)
    /\ Get(heap'[1].vars, "kptopt") = Num(-(Len(path) - 1))
    /\ CopyExcept(heap'[1], heap[1], Range(KpathNames))

\* C22 as stated: set_kpath with a path of p >= 1 points, given or default,
\* stores the points, the division count, the mode (default -2) and
\* kptopt = -(p - 1), which is strictly negative; every other stored
\* variable is unchanged.
C22_KpathStrictlyNegative ==
    [][(ret'.op = "set_kpath" /\ IsPath(PathOf(ret'.kptbounds, heap[1].structure)) /\ Len(PathOf(ret'.kptbounds, heap[1].structure)) >= 1) =>
        /\ StoresPath(PathOf(ret'.kptbounds, heap[1].structure))
        /\ Get(heap'[1].vars, "kptopt").num < 0]_vars

\* C22 amended: set_kpath with a path of p >= 1 points, given or default,
\* stores the points, the division count, the mode (default -2) and
\* kptopt = -(p - 1); kptopt is strictly negative exactly when p >= 2 and
\* is 0 for a path of one point; every other stored variable is unchanged.
C22_KpathMinusSegments ==
    [][(ret'.op = "set_kpath" /\ IsPath(PathOf(ret'.kptbounds, heap[1].structure)) /\ Len(PathOf(ret'.kptbounds, heap[1].structure)) >= 1) =>
        /\ StoresPath(PathOf(ret'.kptbounds, heap[1].structure))
        /\ Get(heap'[1].vars, "kptopt").num < 0 <=> Len(PathOf(ret'.kptbounds, heap[1].structure)) >= 2
        /\ Len(PathOf(ret'.kptbounds, heap[1].structure)) = 1 => Get(heap'[1].vars, "kptopt") = Num(0)]_vars

\* set_kpath has been called with a path of three points on an input that
\* held ecut, and kptopt from an earlier call with the default iscf
C22_Witness == ret.op = "set_kpath" /\ ret.err = "ok" /\ ret.kptbounds # None /\ Len(ret.kptbounds.list) = 3 /\ ret.iscf # None /\ heap[1].vars[1].k = "ecut" /\ heap[1].vars[2].k = "kptopt" /\ Get(heap[1].vars, "kptopt") = Num(-2)

---------------------------------------------------------------------------
(* Properties of from_inputs and addnew_from.                              *)

\* the two mappings hold the same names with the same values
SameVariables(d, e) == Keys(d) = Keys(e) /\ \A key \in Keys(d) : Get(d, key) = Get(e, key)

\* C23: a from_inputs call that returns builds one new dataset per input,
\* in order; dataset i holds the names and values of input i and its
\* structure; the inputs and the caller's list are unchanged; and an
\* assignment or deletion on a dataset changes no input.
C23_FromInputsCopies ==
    [][/\ (ret'.op = "from_inputs" /\ ret'.err = "ok") =>
            /\ Len(multi') = Len(outs)
            /\ outs' = outs
            /\ \A i \in DOMAIN outs :
                /\ multi'[i] \notin Range(outs)
                /\ \A j \in DOMAIN outs : multi'[i] = multi'[j] => i = j
                /\ SameVariables(heap'[multi'[i]].vars, heap[outs[i]].vars)
                /\ heap'[multi'[i]].structure = heap[outs[i]].structure
                /\ heap'[outs[i]] = heap[outs[i]]
       /\ (ret'.op \in {"setitem", "delitem"} /\ ret'.self \in Range(multi)) => \A i \in DOMAIN outs : heap'[outs[i]] = heap[outs[i]]]_vars

\* from_inputs has built two datasets from two inputs with different
\* structures and variables, and the first dataset has been edited since
C23_Witness == ret.op = "setitem" /\ ret.err = "ok" /\ Len(multi) = 2 /\ Len(outs) = 2 /\ ret.self = multi[1] /\ Has(heap[multi[1]].vars, "ixc") /\ ~Has(heap[outs[1]].vars, "ecut") /\ Has(heap[multi[2]].vars, "ecut") /\ heap[multi[2]].structure # heap[multi[1]].structure

\* C24: addnew_from(dtindex) on a MultiDataset of n datasets returns with
\* n + 1 datasets; the first n are the same objects, unchanged; the last is
\* a new object that holds the variables and the structure dataset dtindex
\* has at the call; and an assignment or deletion on one object changes no
\* other object, so that the copy and its origin never follow each other.
C24_CloneIsIndependent ==
    [][/\ ret'.op = "addnew_from" =>
            /\ ret'.err = "ok"
            /\ Len(multi') = Len(multi) + 1
            /\ \A i \in DOMAIN multi : multi'[i] = multi[i] /\ heap'[multi[i]] = heap[multi[i]]
            /\ multi'[Len(multi')] \notin DOMAIN heap
            /\ heap'[multi'[Len(multi')]].vars = heap[multi[ret'.dtindex]].vars
            /\ heap'[multi'[Len(multi')]].structure = heap[multi[ret'.dtindex]].structure
       /\ EditIsLocal]_vars

\* the third dataset is a copy of the second, the input the caller appended,
\* and has been given a variable its origin does not hold
C24_Witness == ret.op = "setitem" /\ ret.err = "ok" /\ Len(multi) = 3 /\ multi[2] \in Range(outs) /\ multi[3] \notin Range(outs) /\ ret.self = multi[3] /\ Has(heap[multi[3]].vars, "ixc") /\ Has(heap[multi[3]].vars, "ecut") /\ ~Has(heap[multi[2]].vars, "ecut")

---------------------------------------------------------------------------
(* Properties of AnaddbInput.                                              *)

\* the other arguments of a phbands_and_dos call are acceptable: every name
\* of vars is in the ANADDB database and qptbounds is a list of points
OtherArgumentsFine(made) == (\A i \in DOMAIN made.seed : is_anaddb_var(made.seed[i].k)) /\ IsPath(PathOf(made.qptbounds, made.structure))

\* C25: phbands_and_dos with dos_method "tetra" returns an input with
\* prtdos = 2, with any dos_method that contains "gaussian" an input with
\* prtdos = 1, and with every other dos_method it raises AnaddbInputError
\* and builds nothing; every key stored by a constructor or an assignment
\* is a name of the ANADDB database.
C25_DosMethodMapping ==
    [][/\ (ret'.op = "phbands_and_dos" /\ OtherArgumentsFine(ret')) =>
            IF ret'.dos_method = <<"tetra">> THEN ret'.err = "ok" /\ Get(heap'[1].vars, "prtdos") = Num(2)
            ELSE IF \E i \in DOMAIN ret'.dos_method : ret'.dos_method[i] = "gaussian" THEN ret'.err = "ok" /\ Get(heap'[1].vars, "prtdos") = Num(1)
            ELSE ret'.err = "AnaddbInputError" /\ heap' = heap
       /\ \A o \in DOMAIN heap' : \A key \in Keys(heap'[o].vars) : is_anaddb_var(key)]_vars

====
